---- MODULE Spec2Model ----
(***************************************************************************)
(* The search query pipeline of the i2e search service: the four expiring  *)
(* AI caches (ai-cache), the AI service functions understandQuery,         *)
(* generateOverview, rankResults and buildElasticsearchQuery (ai-service), *)
(* the GET /search handler (elasticsearch-init) and the browser-side       *)
(* result cache used by the search page.                                   *)
(*                                                                         *)
(* Strings are sequences of one-character strings.  Time is measured in    *)
(* minutes.  Every request is a process whose steps run from one await of  *)
(* the handler to the next, as in the single-threaded event loop.          *)
(***************************************************************************)
EXTENDS Integers, Sequences, FiniteSets, TLC

VARIABLES
    now,            \* Date.now(), in minutes
    caches,         \* ai-cache: caches.{understandQuery,suggestions,overview,ranking}
    req,            \* per request: its arguments, locals, position and history
    browser         \* the search page: its result cache, its state, its call

vars == <<now, caches, req, browser>>

(***************************************************************************)
(* Bounds of the model.                                                    *)
(***************************************************************************)
NumReq == 2
MaxTime == 76
\* The time up to which the browser's result cache is followed.
ResultMaxTime == 11

Req == 1..NumReq
\* Requests of the sequential specifications: one caller, one call at a time.
SeqReq == {1}
\* Requests of the search page: at most two GET /search in flight.
BrowserSlots == {1, 2}
\* Amounts of time that may pass between two steps.
TickSteps == {15, 30}
CacheTickSteps == {30}
ResultTickSteps == {4, 5}

\* The fetchPage promises of preCacheAllPages that may be pending at once.
MaxFetching == 2

\* The changes of the URL the mounted search page is followed through.
MaxUrlChanges == 2

\* The time up to which /suggest requests are followed, and its steps.
SuggestMaxTime == 24
SuggestTickSteps == {7, 8}

(***************************************************************************)
(* Strings.                                                                *)
(***************************************************************************)
\* JS null and undefined for string-valued fields; no string equals them.
NullStr == <<"null">>
Undefined == <<"undefined">>

\* Characters matched by \s.
WS == {" "}

ToLowerChar(c) ==
    CASE c = "A" -> "a"
      [] c = "B" -> "b"
      [] OTHER -> c

toLowerCase(s) == [i \in 1..Len(s) |-> ToLowerChar(s[i])]

RECURSIVE trimStart(_)
trimStart(s) ==
    IF s # <<>> /\ Head(s) \in WS THEN trimStart(Tail(s)) ELSE s

RECURSIVE trimEnd(_)
trimEnd(s) ==
    IF s # <<>> /\ s[Len(s)] \in WS THEN trimEnd(SubSeq(s, 1, Len(s) - 1)) ELSE s

trim(s) == trimEnd(trimStart(s))

\* First index >= i of s holding a non-whitespace character, or Len(s) + 1.
RECURSIVE SkipWs(_, _)
SkipWs(s, i) ==
    IF i <= Len(s) /\ s[i] \in WS THEN SkipWs(s, i + 1) ELSE i

\* String.prototype.split(/\s+/): the pieces between maximal whitespace runs,
\* with an empty piece before a leading run and after a trailing run.
RECURSIVE SplitFrom(_, _, _, _)
SplitFrom(s, i, cur, acc) ==
    IF i > Len(s) THEN Append(acc, cur)
    ELSE IF s[i] \in WS THEN SplitFrom(s, SkipWs(s, i), <<>>, Append(acc, cur))
    ELSE SplitFrom(s, i + 1, Append(cur, s[i]), acc)

splitWhitespace(s) == SplitFrom(s, 1, <<>>, <<>>)

NonEmpty(w) == Len(w) > 0

\* a || b for string-valued a: null, undefined and '' are falsy.
Falsy(s) == s \in {NullStr, Undefined, <<>>}
OrElse(a, b) == IF Falsy(a) THEN b ELSE a

(***************************************************************************)
(* ai-cache.                                                               *)
(***************************************************************************)
CACHE_TTL_UNDERSTAND_QUERY == 30
CACHE_TTL_SUGGESTIONS == 15
CACHE_TTL_OVERVIEW == 60
CACHE_TTL_RANKING == 30

EmptyMap == [k \in {} |-> 0]
MapSet(m, key, entry) ==
    [k \in (DOMAIN m) \cup {key} |-> IF k = key THEN entry ELSE m[k]]
MapDelete(m, key) == [k \in (DOMAIN m) \ {key} |-> m[k]]

\* crypto md5 hex digest: a collision-free function of its input.
md5(s) == <<"md5">> \o s

RECURSIVE Join(_, _)
Join(parts, sep) ==
    IF parts = <<>> THEN <<>>
    ELSE IF Len(parts) = 1 THEN parts[1]
    ELSE parts[1] \o sep \o Join(Tail(parts), sep)

\* slice taking the element at index to as well.
slice_Inclusive(list, from, to) ==
    SubSeq(list, from + 1, IF to + 1 < Len(list) THEN to + 1 ELSE Len(list))

\* Array.prototype.slice(from, to) for 0 <= from <= to.
slice(list, from, to) == SubSeq(list, from + 1, IF to < Len(list) THEN to ELSE Len(list))

\* The key taken from the query as given.
getQueryCacheKey_Raw(q) == md5(q)

\* 147-150: md5 of query.toLowerCase().trim().
getQueryCacheKey(q) == md5(trim(toLowerCase(q)))

\* r.id || r.url
ResultIdentity(d) == OrElse(d.id, d.url)

KEY_RESULTS == 3

getResultsCacheKey(q, results) ==
    md5(trim(toLowerCase(q)) \o <<"|">>
        \o Join([i \in 1..Len(slice(results, 0, KEY_RESULTS)) |->
                    ResultIdentity(results[i])], <<"|">>))

\* isCacheValid with the entry expiring at half its TTL.
isCacheValid_HalfTtl(entry, ttl) ==
    entry.timestamp # 0 /\ (now - entry.timestamp) * 2 < ttl

isCacheValid(entry, ttl) ==
    entry.timestamp # 0 /\ (now - entry.timestamp) < ttl

\* The value a getCached* function returns: the entry's data, or null.
CacheLookup(m, key, ttl, null) ==
    IF key \in DOMAIN m /\ isCacheValid(m[key], ttl) THEN m[key].data ELSE null

\* A lookup that deletes nothing.
CacheEvict_Never(m, key, ttl) == m

\* The map a getCached* function leaves: a stale entry at key is deleted.
CacheEvict(m, key, ttl) ==
    IF key \in DOMAIN m /\ ~isCacheValid(m[key], ttl) THEN MapDelete(m, key) ELSE m

\* A write that keeps the timestamp of the entry it replaces.
CachePut_KeepsTimestamp(m, key, data) ==
    MapSet(m, key, [data |-> data,
                    timestamp |-> IF key \in DOMAIN m THEN m[key].timestamp ELSE now])

CachePut(m, key, data) == MapSet(m, key, [data |-> data, timestamp |-> now])

\* A sweep that keeps the entries whose age is exactly the TTL.
CacheSweep_KeepsBoundary(m, ttl) ==
    [k \in {x \in DOMAIN m : isCacheValid(m[x], ttl + 1)} |-> m[k]]

\* The entries of m a sweep keeps.
CacheSweep(m, ttl) ==
    [k \in {x \in DOMAIN m : isCacheValid(m[x], ttl)} |-> m[k]]

CacheClasses == {"understandQuery", "suggestions", "overview", "ranking"}

\* What turns the caches c into d: the entries deleted and those set.
CacheDelta(c, d) ==
    UNION { { [class |-> cl, key |-> k, kind |-> "evict"] :
                k \in (DOMAIN c[cl]) \ (DOMAIN d[cl]) }
            \cup
            { [class |-> cl, key |-> k, kind |-> "write"] :
                k \in { x \in DOMAIN d[cl] :
                          x \notin DOMAIN c[cl] \/ c[cl][x] # d[cl][x] } }
          : cl \in CacheClasses }

NoCaches ==
    [understandQuery |-> EmptyMap, suggestions |-> EmptyMap,
     overview |-> EmptyMap, ranking |-> EmptyMap]

\* Each function below takes the caches c it acts on.  get*: the value
\* returned; get*Caches: the caches left by the lookup; cache*: the caches
\* left by the write.
Intent(i, c, k, cq, e, s, d) ==
    [intent |-> i, category |-> c, keywords |-> k, correctedQuery |-> cq,
     expandedTerms |-> e, synonyms |-> s, didYouMean |-> d]

\* null, as a value of the type of an intent record.
NullIntent == Intent("null", NullStr, <<>>, NullStr, <<>>, <<>>, NullStr)

getCachedUnderstanding(c, q) ==
    CacheLookup(c.understandQuery, getQueryCacheKey(q),
                CACHE_TTL_UNDERSTAND_QUERY, NullIntent)

getCachedUnderstandingCaches(c, q) ==
    [c EXCEPT !.understandQuery =
        CacheEvict(@, getQueryCacheKey(q), CACHE_TTL_UNDERSTAND_QUERY)]

cacheUnderstanding(c, q, data) ==
    [c EXCEPT !.understandQuery = CachePut(@, getQueryCacheKey(q), data)]

\* null, as a value of the type of a list of suggestions.
NullSuggestions == << NullStr >>

getCachedSuggestions(c, q) ==
    CacheLookup(c.suggestions, getQueryCacheKey(q), CACHE_TTL_SUGGESTIONS,
                NullSuggestions)

getCachedSuggestionsCaches(c, q) ==
    [c EXCEPT !.suggestions =
        CacheEvict(@, getQueryCacheKey(q), CACHE_TTL_SUGGESTIONS)]

cacheSuggestions(c, q, data) ==
    [c EXCEPT !.suggestions = CachePut(@, getQueryCacheKey(q), data)]

getCachedOverview(c, q, topResults) ==
    CacheLookup(c.overview, getResultsCacheKey(q, topResults),
                CACHE_TTL_OVERVIEW, NullStr)

getCachedOverviewCaches(c, q, topResults) ==
    [c EXCEPT !.overview =
        CacheEvict(@, getResultsCacheKey(q, topResults), CACHE_TTL_OVERVIEW)]

cacheOverview(c, q, topResults, data) ==
    [c EXCEPT !.overview = CachePut(@, getResultsCacheKey(q, topResults), data)]

\* null, as a value of the type of a result list.
NullList == << [id |-> NullStr, url |-> NullStr, category |-> NullStr] >>

getCachedRanking(c, q, results) ==
    CacheLookup(c.ranking, getResultsCacheKey(q, results),
                CACHE_TTL_RANKING, NullList)

getCachedRankingCaches(c, q, results) ==
    [c EXCEPT !.ranking =
        CacheEvict(@, getResultsCacheKey(q, results), CACHE_TTL_RANKING)]

cacheRanking(c, q, results, data) ==
    [c EXCEPT !.ranking = CachePut(@, getResultsCacheKey(q, results), data)]

cleanExpiredEntries(c) ==
    [understandQuery |-> CacheSweep(c.understandQuery, CACHE_TTL_UNDERSTAND_QUERY),
     suggestions |-> CacheSweep(c.suggestions, CACHE_TTL_SUGGESTIONS),
     overview |-> CacheSweep(c.overview, CACHE_TTL_OVERVIEW),
     ranking |-> CacheSweep(c.ranking, CACHE_TTL_RANKING)]

\* A clear that leaves the ranking class as it was.
clearAllCaches_KeepsRanking(c) == [NoCaches EXCEPT !.ranking = c.ranking]

\* 291-296: the four maps are cleared.
clearAllCaches(c) == NoCaches

\* 336-355: the sweep runs, then the sizes of the four maps are reported
\* (ttl in minutes, the unit of time here).
getCacheStatsCaches(c) == cleanExpiredEntries(c)

MapSize(m) == Cardinality(DOMAIN m)

getCacheStats(c) ==
    LET swept == getCacheStatsCaches(c) IN
    [understandQuery |-> MapSize(swept.understandQuery),
     suggestions |-> MapSize(swept.suggestions),
     overview |-> MapSize(swept.overview),
     ranking |-> MapSize(swept.ranking),
     total |-> MapSize(swept.understandQuery) + MapSize(swept.suggestions)
                  + MapSize(swept.overview) + MapSize(swept.ranking),
     ttl |-> [understandQuery |-> CACHE_TTL_UNDERSTAND_QUERY,
              suggestions |-> CACHE_TTL_SUGGESTIONS,
              overview |-> CACHE_TTL_OVERVIEW,
              ranking |-> CACHE_TTL_RANKING]]

\* No statistics asked for yet.
NoStats == [getCacheStats(NoCaches) EXCEPT !.total = -1]

(***************************************************************************)
(* ai-service: buildElasticsearchQuery.                                    *)
(***************************************************************************)
Clause(kind, field, value, boost) ==
    [kind |-> kind, field |-> field, value |-> value, boost |-> boost]

\* term.replace(/\s+/g, '*')
RECURSIVE ReplaceWsFrom(_, _)
ReplaceWsFrom(s, i) ==
    IF i > Len(s) THEN <<>>
    ELSE IF s[i] \in WS THEN <<"*">> \o ReplaceWsFrom(s, SkipWs(s, i))
    ELSE <<s[i]>> \o ReplaceWsFrom(s, i + 1)

PREFIX_MIN_LENGTH == 3

PhraseClauses(term) ==
    << Clause("match_phrase", "title", term, 10),
       Clause("match_phrase", "content", term, 8),
       Clause("match_phrase", "description", term, 6),
       Clause("match_phrase", "page_description", term, 7) >>

MatchClauses(term) ==
    << Clause("match", "title", term, 5),
       Clause("match", "content", term, 3),
       Clause("match", "description", term, 2),
       Clause("match", "page_description", term, 4) >>

PrefixClauses(term) ==
    IF Len(term) >= PREFIX_MIN_LENGTH
    THEN << Clause("match_phrase_prefix", "title", term, 4),
            Clause("prefix", "title", toLowerCase(term), 3) >>
    ELSE <<>>

UrlClauses(term) ==
    << Clause("wildcard", "url", <<"*">> \o ReplaceWsFrom(term, 1) \o <<"*">>, 7) >>

\* The clauses pushed for every truthy term, whitespace-only ones too.
TermClauses_NoBlankTest(term) ==
    IF ~Falsy(term)
    THEN PhraseClauses(term) \o MatchClauses(term) \o PrefixClauses(term)
         \o UrlClauses(term)
    ELSE <<>>

\* The clauses pushed for one search term (ai-service.js 446-523).
TermClauses(term) ==
    IF ~Falsy(term) /\ Len(trim(term)) > 0
    THEN PhraseClauses(term) \o MatchClauses(term) \o PrefixClauses(term)
         \o UrlClauses(term)
    ELSE <<>>

RECURSIVE AllTermClauses(_)
AllTermClauses(terms) ==
    IF terms = <<>> THEN <<>>
    ELSE TermClauses(Head(terms)) \o AllTermClauses(Tail(terms))

Truthy(s) == ~Falsy(s)

MatchAll == Clause("match_all", "", <<>>, 0)

\* The builder resolving the detected category only.
BuilderTargetCategory_DetectedOnly(u, categoryFilter) == u.category

\* The category the builder resolves: categoryFilter || category.
BuilderTargetCategory(u, categoryFilter) == OrElse(categoryFilter, u.category)

buildElasticsearchQuery(u, categoryFilter) ==
    LET targetCategory == BuilderTargetCategory(u, categoryFilter)
        mustClauses ==
            IF ~Falsy(targetCategory) /\ trim(targetCategory) # <<>>
            THEN << Clause("term", "category", targetCategory, 0) >>
            ELSE <<>>
        allTerms == SelectSeq(u.keywords \o u.expandedTerms \o u.synonyms, Truthy)
        searchTerms == IF Len(allTerms) > 0 THEN allTerms ELSE u.keywords
        shouldClauses == AllTermClauses(searchTerms)
    IN [must |-> mustClauses,
        should |-> IF Len(shouldClauses) > 0 THEN shouldClauses ELSE << MatchAll >>,
        minimum_should_match |-> IF Len(shouldClauses) > 0 THEN 1 ELSE 0]

NoEsQuery == [must |-> <<>>, should |-> <<>>, minimum_should_match |-> -1]

(***************************************************************************)
(* Requests.  A request record req[r] holds the arguments and locals of    *)
(* the running call, where it is suspended (pc), the external calls it has *)
(* issued, the cache entries it evicted or wrote (effects) and what is     *)
(* remembered of the call before it (prev).  The operators below are the   *)
(* pieces of code between two awaits: each takes the request record and    *)
(* the caches, and gives the record and caches it leaves.                  *)
(***************************************************************************)
Doc(id, url, cat) == [id |-> id, url |-> url, category |-> cat]

NoCalls ==
    [understand |-> 0, search |-> 0, rank |-> 0, overview |-> 0, agg |-> 0,
     suggest |-> 0, log |-> 0]

\* The history kept of the call before the current one: what it was called
\* with, what it returned and how, and whether the current call was entered
\* less than the class's TTL after the value it returned was made (answered
\* by the service, or cached if it came from the cache), with no clear since.
NoPrev ==
    [has |-> FALSE, recent |-> FALSE, query |-> <<>>, results |-> <<>>,
     path |-> "none", calls |-> 0, intent |-> NullIntent, overview |-> NullStr,
     ranked |-> <<>>, wrote |-> {}]

Response(shape, status, results, total, counts, page, size, pages, ov, dym, intent, msg) ==
    [shape |-> shape, status |-> status, results |-> results, total |-> total,
     categoryCounts |-> counts, page |-> page, pageSize |-> size,
     totalPages |-> pages, overview |-> ov, didYouMean |-> dym,
     intent |-> intent, message |-> msg]

NoResponse ==
    Response("none", 0, <<>>, 0, EmptyMap, 0, 0, 0, NullStr, NullStr, "", NullStr)

DEFAULT_PAGE == 1
DEFAULT_PAGE_SIZE == 10
MAX_ES_SIZE == 100
RANK_MAX_RESULTS == 20

\* No answer of the ranking service has come to the request.
NoRankAnswer == [kind |-> "none", rankedIndices |-> <<>>]

\* What a /suggest request holds: what its two generateSuggestions calls
\* returned and how, the index-engine results, the suggestions answered, and
\* when the second call was entered.
NoSuggest ==
    [ai |-> <<>>, aiPath |-> "none", contextual |-> <<>>, ctxPath |-> "none",
     esResults |-> <<>>, final |-> <<>>, againAt |-> 0]

IdleReq ==
    [pc |-> "idle", op |-> "none", query |-> <<>>, category |-> <<>>,
     page |-> DEFAULT_PAGE, pageSize |-> DEFAULT_PAGE_SIZE,
     understanding |-> NullIntent, uPath |-> "none",
     results |-> <<>>, ranked |-> <<>>, rPath |-> "none",
     top |-> <<>>, overview |-> NullStr, oPath |-> "none", aggPath |-> "none",
     esQuery |-> NoEsQuery, total |-> 0, response |-> NoResponse,
     calls |-> NoCalls, recordAt |-> 0, effects |-> {}, cleared |-> FALSE,
     prev |-> NoPrev, suggestions |-> NullSuggestions, puts |-> NoCaches,
     rankAnswer |-> NoRankAnswer, stats |-> NoStats, sug |-> NoSuggest,
     userId |-> Undefined, strapiApiKey |-> <<>>, categoryCounts |-> EmptyMap]

Out(rq, c) == [req |-> rq, caches |-> c]

Return(rq, c) == Out([rq EXCEPT !.pc = "done"], c)

Issue(rq, what) == [rq.calls EXCEPT ![what] = @ + 1]

Min(a, b) == IF a < b THEN a ELSE b

\* Math.ceil(a / b) for a >= 0, b > 0.
CeilDiv(a, b) == (a + b - 1) \div b

(***************************************************************************)
(* elasticsearch-init: GET /search, from its last await backwards.         *)
(***************************************************************************)
\* didYouMean || correctedQuery || null
DidYouMean(u) == OrElse(u.didYouMean, OrElse(u.correctedQuery, NullStr))

\* The counts with an 'all categories' entry also when the call failed.
CategoryCounts_AllOnFailure(agg) ==
    MapSet(IF agg.kind = "throw" THEN EmptyMap ELSE agg.buckets, <<>>, agg.total)

\* 541-580: the buckets and the 'all categories' total, or {} on failure.
CategoryCounts(agg) ==
    IF agg.kind = "throw" THEN EmptyMap
    ELSE MapSet(agg.buckets, <<>>, agg.total)

\* 616-631: res.json of the values the handler holds.
SearchRespond(rq, c) ==
    Return([rq EXCEPT !.response =
              Response("full", 200, rq.top, rq.total, rq.categoryCounts,
                       rq.page, rq.pageSize, CeilDiv(rq.total, rq.pageSize),
                       rq.overview, DidYouMean(rq.understanding),
                       rq.understanding.intent, NullStr)], c)

\* 584-614: the log post answered or failed (the failure is caught); the
\* response is sent.
SearchAfterLog(rq, c) == SearchRespond(rq, c)

\* 585-588: the search is logged on the first page, for a request that names
\* its user (user_id parameter or x-user-id header), when the process has a
\* STRAPI_API_KEY.
ShouldLogSearch(rq) == rq.page = 1 /\ ~Falsy(rq.userId) /\ ~Falsy(rq.strapiApiKey)

\* 557-589: the aggregation answered or failed; the log is posted, or the
\* response is sent.
SearchAfterAgg(rq, c, agg) ==
    LET rq1 == [rq EXCEPT !.aggPath = IF agg.kind = "throw" THEN "error" ELSE "ok",
                          !.categoryCounts = CategoryCounts(agg)]
    IN IF ShouldLogSearch(rq1)
       THEN Out([rq1 EXCEPT !.pc = "log_await", !.calls = Issue(rq1, "log")], c)
       ELSE SearchRespond(rq1, c)

\* 531-556: the total, then the aggregation query is sent.
SearchAfterOverview(rq, c) ==
    Out([rq EXCEPT !.pc = "agg_await", !.calls = Issue(rq, "agg")], c)

(***************************************************************************)
(* ai-service: generateOverview.                                           *)
(***************************************************************************)
OverviewReturn(rq, c, value, path, at) ==
    LET rq1 == [rq EXCEPT !.overview = value, !.oPath = path, !.recordAt = at]
    IN IF rq.op = "search" THEN SearchAfterOverview(rq1, c) ELSE Return(rq1, c)

\* 278-295: to the await.
generateOverviewEnter(rq, c, q, topResults) ==
    IF Falsy(q) \/ Len(topResults) = 0
    THEN OverviewReturn(rq, c, NullStr, "empty", now)
    ELSE LET cached == getCachedOverview(c, q, topResults)
             c1 == getCachedOverviewCaches(c, q, topResults)
         IN IF cached # NullStr
            THEN OverviewReturn(rq, c1, cached, "hit",
                                c.overview[getResultsCacheKey(q, topResults)].timestamp)
            ELSE Out([rq EXCEPT !.pc = "o_await", !.top = topResults,
                                !.calls = Issue(rq, "overview")], c1)

\* 326-334: the service answered with content, or the call failed.
generateOverviewResume(rq, c, ans) ==
    IF ans.kind = "throw"
    THEN OverviewReturn(rq, c, NullStr, "error", now)
    ELSE LET overview == OrElse(trim(ans.content), NullStr)
         IN OverviewReturn(rq, cacheOverview(c, rq.query, rq.top, overview),
                           overview, "service", now)

(***************************************************************************)
(* elasticsearch-init: GET /search, after ranking.                         *)
(***************************************************************************)
\* The overview guard without its test of the page.
ShouldGenerateOverview_AnyPage(page, q, results) ==
    Len(trim(q)) > 0 /\ Len(results) > 0

\* 518-529: the page slice, and the overview on the first page only.
ShouldGenerateOverview(page, q, results) ==
    page = 1 /\ Len(trim(q)) > 0 /\ Len(results) > 0

SearchAfterRank(rq, c, list) ==
    LET results == slice(list, 0, rq.pageSize)
        rq1 == [rq EXCEPT !.top = results]
    IN IF ShouldGenerateOverview(rq.page, rq.query, results)
       THEN generateOverviewEnter(rq1, c, rq.query, results)
       ELSE SearchAfterOverview(rq1, c)

(***************************************************************************)
(* ai-service: rankResults.                                                *)
(***************************************************************************)
RankReturn(rq, c, list, path, at) ==
    LET rq1 == [rq EXCEPT !.ranked = list, !.rPath = path, !.recordAt = at]
    IN IF rq.op = "search" THEN SearchAfterRank(rq1, c, list) ELSE Return(rq1, c)

\* 340-358: to the await, or past it for a large list (409-415).
rankResultsEnter(rq, c, q, results) ==
    IF Len(results) = 0
    THEN RankReturn(rq, c, results, "empty", now)
    ELSE LET cached == getCachedRanking(c, q, results)
             c1 == getCachedRankingCaches(c, q, results)
         IN IF cached # NullList
            THEN RankReturn(rq, c1, cached, "hit",
                            c.ranking[getResultsCacheKey(q, results)].timestamp)
            ELSE IF Len(results) <= RANK_MAX_RESULTS
            THEN Out([rq EXCEPT !.pc = "r_await", !.calls = Issue(rq, "rank")], c1)
            ELSE RankReturn(rq, cacheRanking(c1, q, results, results), results,
                            "large", now)

\* rankedIndices.map(idx => results[idx]).filter(Boolean)
RECURSIVE PickResults(_, _)
PickResults(results, indices) ==
    IF indices = <<>> THEN <<>>
    ELSE LET idx == Head(indices)
         IN (IF idx >= 0 /\ idx < Len(results) THEN << results[idx + 1] >> ELSE <<>>)
            \o PickResults(results, Tail(indices))

\* rankResults without its catch: the exception leaves the call.
RankFails_Propagates(rq, c) == Out([rq EXCEPT !.pc = "raised"], c)

\* 416-419: the catch of rankResults.
RankFails(rq, c) == RankReturn(rq, c, rq.results, "error", now)

\* What the try block (351-415) makes of the service's answer.  "throw": the
\* call rejects (network error, timeout, non-2xx).  "null": the content is
\* JSON null, and reading parsed.rankedIndices throws.  "string": the content
\* has a string for rankedIndices (its characters are the digits given), and
\* rankedIndices.map throws when its length passes the test of 398.
\* "badjson": JSON.parse throws, parsed = {} and rankedIndices = [].
RankThrows(rq, ans) ==
    \/ ans.kind \in {"throw", "null"}
    \/ ans.kind = "string" /\ Len(ans.rankedIndices) = Len(rq.results)

RankIndices(ans) == IF ans.kind = "badjson" THEN <<>> ELSE ans.rankedIndices

\* 390-419: the service answered with rankedIndices, or the call failed.
rankResultsResume(rq, c, ans) ==
    IF RankThrows(rq, ans)
    THEN RankFails(rq, c)
    ELSE IF Len(RankIndices(ans)) = Len(rq.results)
    THEN LET ranked == PickResults(rq.results, RankIndices(ans))
         IN RankReturn(rq, cacheRanking(c, rq.query, rq.results, ranked), ranked,
                       "ai", now)
    ELSE RankReturn(rq, cacheRanking(c, rq.query, rq.results, rq.results),
                    rq.results, "fallback", now)

(***************************************************************************)
(* elasticsearch-init: GET /search, before ranking.                        *)
(***************************************************************************)
\* 632-643: the catch at the end of the handler.  The body has results, total
\* and message only: overview, didYouMean and intent are absent.
SearchFailed(rq, c, message) ==
    Return([rq EXCEPT !.response =
              Response("error", 500, <<>>, 0, EmptyMap, 0, 0, 0, Undefined, Undefined,
                       "undefined", message)], c)

\* 493-515: the candidate search answered or failed; results are ranked if
\* there are any and the query is not blank.
SearchAfterEs(rq, c, es) ==
    IF es.kind = "throw"
    THEN SearchFailed(rq, c, es.message)
    ELSE LET rq1 == [rq EXCEPT !.results = es.hits, !.total = es.total]
         IN IF Len(es.hits) > 0 /\ Len(trim(rq.query)) > 0
            THEN rankResultsEnter(rq1, c, rq.query, es.hits)
            ELSE SearchAfterRank(rq1, c, es.hits)

\* 471-491: the target category, the structured query, the search is sent.
ShouldUseDetectedCategory(u) == u.intent \in {"category-keyword", "category-only"}

\* The handler letting the gated detected category win over the filter.
TargetCategory_DetectedFirst(category, u) ==
    OrElse(IF ShouldUseDetectedCategory(u) THEN u.category ELSE NullStr, category)

TargetCategory(category, u) ==
    OrElse(category, IF ShouldUseDetectedCategory(u) THEN u.category ELSE NullStr)

SearchAfterUnderstand(rq, c) ==
    Out([rq EXCEPT
            !.esQuery = buildElasticsearchQuery(rq.understanding,
                            TargetCategory(rq.category, rq.understanding)),
            !.pc = "es_await",
            !.calls = Issue(rq, "search")], c)

(***************************************************************************)
(* ai-service: understandQuery.                                            *)
(***************************************************************************)
\* The record returned for an empty or blank query (it has no didYouMean).
BlankIntent == Intent("search", NullStr, <<>>, NullStr, <<>>, <<>>, Undefined)

\* The test of the empty query alone.
IsBlankQuery_EmptyOnly(q) == Falsy(q)

IsBlankQuery(q) == Falsy(q) \/ Len(trim(q)) = 0

\* The fallback keywords without the filter of empty pieces.
FallbackKeywords_Unfiltered(q) == splitWhitespace(q)

FallbackKeywords(q) == SelectSeq(splitWhitespace(q), NonEmpty)

FallbackIntent(q) ==
    Intent("search", NullStr, FallbackKeywords(q), NullStr, <<>>, <<>>, NullStr)

\* The record built from the parsed service answer; a missing or falsy field
\* takes its default.  An absent list field is the empty sequence here.
NormalizeParsed(p) ==
    Intent(IF p.intent = "" THEN "search" ELSE p.intent,
           OrElse(p.category, NullStr),
           p.keywords,
           OrElse(p.correctedQuery, NullStr),
           p.expandedTerms,
           p.synonyms,
           OrElse(p.didYouMean, NullStr))

\* JSON.parse failed, or the content was empty: parsed = {}.
EmptyParsed ==
    [intent |-> "", category |-> Undefined, keywords |-> <<>>,
     correctedQuery |-> Undefined, expandedTerms |-> <<>>, synonyms |-> <<>>,
     didYouMean |-> Undefined]

UnderstandReturn(rq, c, u, path, at) ==
    LET rq1 == [rq EXCEPT !.understanding = u, !.uPath = path, !.recordAt = at]
    IN IF rq.op = "search" THEN SearchAfterUnderstand(rq1, c) ELSE Return(rq1, c)

\* 110-129: to the await.
understandQueryEnter(rq, c, q) ==
    IF IsBlankQuery(q)
    THEN UnderstandReturn(rq, c, BlankIntent, "blank", now)
    ELSE LET cached == getCachedUnderstanding(c, q)
             c1 == getCachedUnderstandingCaches(c, q)
         IN IF cached # NullIntent
            THEN UnderstandReturn(rq, c1, cached, "hit",
                                  c.understandQuery[getQueryCacheKey(q)].timestamp)
            ELSE Out([rq EXCEPT !.pc = "u_await", !.calls = Issue(rq, "understand")], c1)

\* The catch, were it to cache the fallback it returns.
UnderstandFails_CachesFallback(rq, c) ==
    UnderstandReturn(rq, cacheUnderstanding(c, rq.query, FallbackIntent(rq.query)),
                     FallbackIntent(rq.query), "fallback", now)

\* The catch, were it to call the service again.
UnderstandFails_Retries(rq, c) ==
    Out([rq EXCEPT !.pc = "u_await", !.calls = Issue(rq, "understand")], c)

\* 198-209: the awaited service call failed.
UnderstandFails(rq, c) ==
    UnderstandReturn(rq, c, FallbackIntent(rq.query), "fallback", now)

\* The answer cached only when the key has no entry yet.
UnderstandAnswered_KeepsFirst(rq, c, ans) ==
    LET result == NormalizeParsed(IF ans.kind = "badjson" THEN EmptyParsed ELSE ans.parsed)
        key == getQueryCacheKey(rq.query)
    IN UnderstandReturn(rq, IF key \in DOMAIN c.understandQuery THEN c
                            ELSE cacheUnderstanding(c, rq.query, result),
                        result, "service", now)

\* 176-197: the awaited service call answered: parse, default, cache.
UnderstandAnswered(rq, c, ans) ==
    LET parsed == IF ans.kind = "badjson" THEN EmptyParsed ELSE ans.parsed
        result == NormalizeParsed(parsed)
    IN UnderstandReturn(rq, cacheUnderstanding(c, rq.query, result), result,
                        IF ans.kind = "badjson" THEN "malformed" ELSE "service", now)

understandQueryResume(rq, c, ans) ==
    IF ans.kind = "throw" THEN UnderstandFails(rq, c) ELSE UnderstandAnswered(rq, c, ans)

(***************************************************************************)
(* elasticsearch-init: GET /search, its beginning.                         *)
(***************************************************************************)
\* parseInt(x) || dflt, for x absent (0 here) or a number.
ParseIntOr(x, dflt) == IF x = 0 THEN dflt ELSE x

\* The handler without the nothing-to-search answer.
SearchEnter_AlwaysUnderstands(rq, c) == understandQueryEnter(rq, c, rq.query)

\* 435-456: the parameters, the nothing-to-search answer, understandQuery.
SearchEnter(rq, c) ==
    IF Falsy(rq.query) /\ Falsy(rq.category)
    THEN Return([rq EXCEPT !.response =
                    Response("empty", 200, <<>>, 0, EmptyMap, 1, 0, 0, NullStr,
                             NullStr, "", NullStr)], c)
    ELSE understandQueryEnter(rq, c, rq.query)

(***************************************************************************)
(* elasticsearch-init: GET /suggest, and ai-service: generateSuggestions.  *)
(***************************************************************************)
\* String.prototype.includes.
Includes(s, t) ==
    \E i \in 0..(Len(s) - Len(t)) : SubSeq(s, i + 1, i + Len(t)) = t

\* [...new Set(list)]: the first occurrence of each element, in order.
RECURSIVE Unique(_)
Unique(list) ==
    IF list = <<>> THEN <<>>
    ELSE LET front == Unique(SubSeq(list, 1, Len(list) - 1))
             last == list[Len(list)]
         IN IF \E i \in 1..Len(front) : front[i] = last THEN front
            ELSE Append(front, last)

SuggestionItem(id, url, title, description, category) ==
    [id |-> id, url |-> url, title |-> title, description |-> description,
     category |-> category]

DigitOf(n) ==
    CASE n = 0 -> "0" [] n = 1 -> "1" [] n = 2 -> "2"
      [] n = 3 -> "3" [] n = 4 -> "4" [] OTHER -> "5"

\* 393-396: the title contains the suggestion or the suggestion the title.
TitleMatches(r, suggestion) ==
    \/ Includes(toLowerCase(r.title), toLowerCase(suggestion))
    \/ Includes(toLowerCase(suggestion), toLowerCase(r.title))

\* 391-409: the matching index-engine result, or an item made of the text.
SuggestionFor(esResults, suggestion, index) ==
    IF \E i \in 1..Len(esResults) : TitleMatches(esResults[i], suggestion)
    THEN esResults[CHOOSE i \in 1..Len(esResults) :
                      /\ TitleMatches(esResults[i], suggestion)
                      /\ \A j \in 1..(i - 1) : ~TitleMatches(esResults[j], suggestion)]
    ELSE SuggestionItem(<<"ai-suggestion-", DigitOf(index)>>, <<>>, suggestion, <<>>, <<>>)

\* 411-416: the index-engine results not among the suggestions are appended.
RECURSIVE AddMissing(_, _)
AddMissing(suggestions, esResults) ==
    IF esResults = <<>> THEN suggestions
    ELSE AddMissing(
            IF \E i \in 1..Len(suggestions) : suggestions[i].id = Head(esResults).id
            THEN suggestions ELSE Append(suggestions, Head(esResults)),
            Tail(esResults))

MAX_SUGGESTIONS == 6

\* 388-421: the two lists are merged, mapped, completed and cut to six.
FinalSuggestions(aiSuggestions, contextualSuggestions, esResults) ==
    LET allSuggestions ==
            slice(Unique(aiSuggestions \o contextualSuggestions), 0, MAX_SUGGESTIONS)
        suggestions ==
            [i \in 1..Len(allSuggestions) |->
                SuggestionFor(esResults, allSuggestions[i], i - 1)]
    IN slice(AddMissing(suggestions, esResults), 0, MAX_SUGGESTIONS)

SuggestRespond(rq, c, final) == Return([rq EXCEPT !.sug.final = final], c)

\* generateSuggestions returns value.  The first call of the request
\* (362-373): the structured query is built and the index engine searched;
\* the second (385-423): the response is made.
SuggestionsReturn(rq, c, value, path, at) ==
    IF rq.sug.aiPath = "none"
    THEN Out([rq EXCEPT
                !.sug.ai = value, !.sug.aiPath = path, !.recordAt = at,
                !.esQuery = buildElasticsearchQuery(
                                Intent("search", Undefined, <<rq.query>>, Undefined,
                                       <<>>, <<>>, Undefined), NullStr),
                !.pc = "ses_await", !.calls = Issue(rq, "search")], c)
    ELSE SuggestRespond([rq EXCEPT !.sug.contextual = value, !.sug.ctxPath = path], c,
                        FinalSuggestions(rq.sug.ai, value, rq.sug.esResults))

\* ai-service 216-225: to the await.
generateSuggestionsEnter(rq, c, q) ==
    IF Falsy(q) \/ Len(trim(q)) < 1
    THEN SuggestionsReturn(rq, c, <<>>, "blank", now)
    ELSE LET cached == getCachedSuggestions(c, q)
             c1 == getCachedSuggestionsCaches(c, q)
         IN IF cached # NullSuggestions
            THEN SuggestionsReturn(rq, c1, cached, "hit",
                                   c.suggestions[getQueryCacheKey(q)].timestamp)
            ELSE Out([rq EXCEPT !.pc = "s_await", !.calls = Issue(rq, "suggest")], c1)

\* The answer returned without being cached.
SuggestionsAnswered_NotCached(rq, c, ans) ==
    SuggestionsReturn(rq, c, ans.suggestions, "service", now)

\* ai-service 257-269: the content is parsed ({} when it does not parse),
\* the suggestions are cached and returned.
SuggestionsAnswered(rq, c, ans) ==
    SuggestionsReturn(rq, cacheSuggestions(c, rq.query, ans.suggestions),
                      ans.suggestions, "service", now)

\* ai-service 270-273: the catch.
SuggestionsFailed(rq, c) == SuggestionsReturn(rq, c, <<>>, "error", now)

generateSuggestionsResume(rq, c, ans) ==
    IF ans.kind = "throw" THEN SuggestionsFailed(rq, c)
    ELSE SuggestionsAnswered(rq, c, ans)

\* 370-385 and 424-428: the index engine answered or failed; a failure is
\* answered with no suggestions; otherwise generateSuggestions is called
\* again.
SuggestAfterEs(rq, c, es) ==
    IF es.kind = "throw"
    THEN SuggestRespond(rq, c, <<>>)
    ELSE generateSuggestionsEnter(
            [rq EXCEPT !.sug.esResults = es.hits, !.sug.againAt = now], c, rq.query)

\* 353-362: no suggestions for an empty query; otherwise generateSuggestions.
SuggestEnter(rq, c) ==
    IF Falsy(rq.query) \/ Len(rq.query) < 1
    THEN SuggestRespond(rq, c, <<>>)
    ELSE generateSuggestionsEnter(rq, c, rq.query)

(***************************************************************************)
(* The browser: the result cache (cache.ts), the API client (api.ts) and   *)
(* the search page (performSearch and the effect that calls it).  The page *)
(* is that of an anonymous visitor (no history) without the `categories`   *)
(* parameter (multipleCategories is empty).                                *)
(***************************************************************************)
\* cache.ts: CACHE_TTL, 5 minutes.
CACHE_TTL == 5

\* The page size performSearch asks for and computes the pages with.
PAGE_SIZE == 10

DigitChars == << "0", "1", "2", "3", "4", "5", "6", "7", "8", "9" >>

\* String(n) for n >= 0.
RECURSIVE NumStr(_)
NumStr(n) ==
    IF n < 10 THEN << DigitChars[n + 1] >>
    ELSE NumStr(n \div 10) \o << DigitChars[(n % 10) + 1] >>

startsWith(s, prefix) ==
    Len(prefix) <= Len(s) /\ SubSeq(s, 1, Len(prefix)) = prefix

getCacheKey(query, category, page) ==
    trim(toLowerCase(query)) \o <<"|">> \o category \o <<"|">> \o NumStr(page)

CachedSearchResult(results, total, counts, pages, ov, dym, intent, timestamp) ==
    [results |-> results, total |-> total, categoryCounts |-> counts,
     totalPages |-> pages, overview |-> ov, didYouMean |-> dym,
     intent |-> intent, timestamp |-> timestamp]

\* null, as a value of the type of a cache entry.
NullEntry ==
    CachedSearchResult(NullList, 0, EmptyMap, 0, NullStr, NullStr, "null", 0)

\* isCacheValid with an entry still valid at the age of CACHE_TTL.
isResultCacheValid_Inclusive(entry) == (now - entry.timestamp) <= CACHE_TTL

\* cache.ts isCacheValid(entry)
isResultCacheValid(entry) == (now - entry.timestamp) < CACHE_TTL

\* getCachedResults: the value returned.
getCachedResults(cache, query, category, page) ==
    LET key == getCacheKey(query, category, page)
    IN IF key \in DOMAIN cache /\ isResultCacheValid(cache[key])
       THEN cache[key] ELSE NullEntry

\* getCachedResults: the map left, an expired entry at the key removed.
getCachedResultsCache(cache, query, category, page) ==
    LET key == getCacheKey(query, category, page)
    IN IF key \in DOMAIN cache /\ ~isResultCacheValid(cache[key])
       THEN MapDelete(cache, key) ELSE cache

cacheResults(cache, query, category, page, data) ==
    MapSet(cache, getCacheKey(query, category, page),
           [data EXCEPT !.timestamp = now])

clearCacheForQuery(cache, query) ==
    LET prefix == trim(toLowerCase(query)) \o <<"|">>
    IN [k \in { x \in DOMAIN cache : ~startsWith(x, prefix) } |-> cache[k]]

\* clearAllCache: cache.clear()
clearAllCache(cache) == EmptyMap

\* preCacheAllPages: the pages fetched, 2 to min(3, totalPages).
PagesToPreCache(totalPages) ==
    [i \in 1..(IF totalPages >= 3 THEN 2 ELSE IF totalPages = 2 THEN 1 ELSE 0) |-> i + 1]

\* preCacheAllPages: the fetchPage calls it starts, in order.
PreCacheFetches(query, category, totalPages) ==
    [i \in 1..Len(PagesToPreCache(totalPages)) |->
        [query |-> query, category |-> category,
         page |-> PagesToPreCache(totalPages)[i]]]

\* The sequence without its i-th element.
RemoveAt(seq, i) == SubSeq(seq, 1, i - 1) \o SubSeq(seq, i + 1, Len(seq))

\* intent || 'search'
IntentOrSearch(i) == IF i \in {"", "null", "undefined"} THEN "search" ELSE i

\* api.ts search(): what the caller gets for the response of GET /search.
\* A response with an error status makes the HTTP client throw; the catch
\* answers with the empty result, which has no overview, didYouMean, intent.
ApiData(results, total, counts, page, totalPages, overview, didYouMean, intent) ==
    [results |-> results, total |-> total, categoryCounts |-> counts,
     page |-> page, totalPages |-> totalPages, overview |-> overview,
     didYouMean |-> didYouMean, intent |-> intent]

ApiEmpty == ApiData(<<>>, 0, EmptyMap, 1, 0, Undefined, Undefined, "undefined")

ApiSearchSkips(query, category) == Falsy(query) /\ Falsy(category)

ApiSearchResult(response) ==
    IF response.status # 200 THEN ApiEmpty
    ELSE ApiData(response.results, response.total, response.categoryCounts,
                 IF response.page = 0 THEN 1 ELSE response.page,
                 response.totalPages,
                 OrElse(response.overview, NullStr),
                 OrElse(response.didYouMean, NullStr),
                 IntentOrSearch(response.intent))

LANDING_PAGES == << "l", "a", "n", "d", "i", "n", "g", "-", "p", "a", "g", "e", "s" >>
LANDING_PAGE == << "l", "a", "n", "d", "i", "n", "g", "-", "p", "a", "g", "e" >>

\* No performSearch call awaits the API through this request slot.  A call
\* that does holds the arguments and the rendered state of its closure;
\* stage "sent": its GET /search is on the way to the handler, "arrived": the
\* handler was entered.
NoCall ==
    [stage |-> "none", query |-> <<>>, category |-> <<>>, page |-> 0,
     isNewSearch |-> FALSE, lastSearchQuery |-> <<>>,
     categoryCounts |-> EmptyMap, userId |-> Undefined]

\* No callback waits for the next animation frame.  Callbacks registered for
\* one frame run in the order registered, so the values the last registered
\* one sets are those the frame leaves.
NoFrame == [due |-> FALSE, overview |-> NullStr, didYouMean |-> NullStr]

\* The last direct call of an export of cache.ts: its name, its arguments,
\* what it returned, and the history of the direct writes since the last
\* clearAllCache: for each (lower-cased trimmed query, category, page) the
\* data last written and when; for clearCacheForQuery and clearAllCache, the
\* cache it was called on; the fetchPage promises of preCacheAllPages that
\* are not settled yet.
NoDirect ==
    [name |-> "none", query |-> <<>>, category |-> <<>>, page |-> 0,
     returned |-> NullEntry, written |-> EmptyMap, before |-> EmptyMap,
     fetching |-> <<>>]

ResultTriple(query, category, page) == << trim(toLowerCase(query)), category, page >>

\* The page's state (useState, useRef), the module's cache, the performSearch
\* calls that await the API (with the values their closures hold), the
\* render scheduled by setCurrentPage, the router.push of the category
\* select that has not committed yet, the pending animation frame, the
\* number of changes of the URL so far, and how the last performSearch that
\* set the results got them, and for which page.
BrowserInit ==
    [cache |-> EmptyMap, mounted |-> FALSE, userId |-> Undefined,
     calls |-> [r \in Req |-> NoCall], effectDue |-> FALSE, navigating |-> FALSE,
     frame |-> NoFrame, urlChanges |-> 0,
     query |-> <<>>, selectedCategory |-> <<>>, currentPage |-> 1,
     results |-> <<>>, total |-> 0, totalPages |-> 0, categoryCounts |-> EmptyMap,
     overview |-> NullStr, didYouMean |-> NullStr,
     isInitialLoad |-> TRUE, lastSearchQuery |-> <<>>,
     prevSearch |-> [query |-> <<>>, category |-> <<>>],
     served |-> "none", servedPage |-> 0, direct |-> NoDirect]

\* performSearch 373-379: nothing to search.
PerformSearchNothing(b) ==
    [b EXCEPT !.results = <<>>, !.total = 0, !.totalPages = 0,
              !.isInitialLoad = FALSE, !.served = "nothing"]

\* page === 1 ? (value || null) : null
OverviewOnPage(page, value) == IF page = 1 THEN OrElse(value, NullStr) ELSE NullStr

\* performSearch 384-409: the page is served from the cached entry.
PerformSearchCached(b, cached, page) ==
    [b EXCEPT !.results = cached.results, !.total = cached.total,
              !.totalPages = cached.totalPages,
              !.categoryCounts = cached.categoryCounts,
              !.overview = OverviewOnPage(page, cached.overview),
              !.didYouMean = OverviewOnPage(page, cached.didYouMean),
              !.isInitialLoad = FALSE, !.served = "cache", !.servedPage = page]

\* updatedCategoryCounts[backendCategory] ?? updatedCategoryCounts[category] ?? 0
CategoryTotal(counts, category) ==
    LET backendCategory == IF category = LANDING_PAGES THEN LANDING_PAGE ELSE category
    IN IF backendCategory \in DOMAIN counts THEN counts[backendCategory]
       ELSE IF category \in DOMAIN counts THEN counts[category]
       ELSE 0

\* performSearch 443-590: the API answered the call c with data.  On page 1
\* the overview and the correction are left to the next animation frame.
PerformSearchReceived(b, c, data) ==
    LET newQuery == c.query # c.lastSearchQuery
        updatedCategoryCounts ==
            IF newQuery THEN MapSet(data.categoryCounts, <<>>, data.total)
            ELSE c.categoryCounts
        combinedTotal ==
            IF ~Falsy(c.category)
            THEN CategoryTotal(updatedCategoryCounts, c.category)
            ELSE IF <<>> \in DOMAIN updatedCategoryCounts
                 THEN updatedCategoryCounts[<<>>] ELSE data.total
        calculatedTotalPages == CeilDiv(combinedTotal, PAGE_SIZE)
        entry == CachedSearchResult(data.results, combinedTotal,
                     updatedCategoryCounts, calculatedTotalPages,
                     OverviewOnPage(c.page, data.overview),
                     OverviewOnPage(c.page, data.didYouMean),
                     IntentOrSearch(data.intent), now)
    IN [b EXCEPT !.cache = cacheResults(@, c.query, c.category, c.page, entry),
                 !.lastSearchQuery = IF newQuery THEN c.query ELSE @,
                 !.results = data.results, !.total = combinedTotal,
                 !.totalPages = calculatedTotalPages,
                 !.categoryCounts = updatedCategoryCounts,
                 !.isInitialLoad = FALSE,
                 !.frame = IF c.page = 1
                           THEN [due |-> TRUE,
                                 overview |-> OrElse(data.overview, NullStr),
                                 didYouMean |-> OrElse(data.didYouMean, NullStr)]
                           ELSE @,
                 !.overview = IF c.page = 1 THEN @ ELSE NullStr,
                 !.didYouMean = IF c.page = 1 THEN @ ELSE NullStr,
                 !.served = "api", !.servedPage = c.page]

\* The request slots of the page that no call holds.
FreeSlots(b) == { r \in BrowserSlots : b.calls[r] = NoCall }

\* api.ts search() 87-92: GET /search is sent.  The requests in flight are
\* bounded by the request slots: a call that finds none is marked.
SendSearch(b, c) ==
    IF FreeSlots(b) = {}
    THEN [b EXCEPT !.served = "overflow"]
    ELSE LET r == CHOOSE x \in FreeSlots(b) : \A y \in FreeSlots(b) : x <= y
         IN [b EXCEPT !.calls[r] = c]

\* performSearch 366-441: to the return, or to the await of the API.
performSearch(b, b0, searchQuery, category, page, isNewSearch) ==
    IF Len(trim(searchQuery)) = 0 /\ Falsy(category)
    THEN PerformSearchNothing(b)
    ELSE LET useCache == ~isNewSearch /\ ~b0.isInitialLoad
             cached == IF useCache
                       THEN getCachedResults(b.cache, searchQuery, category, page)
                       ELSE NullEntry
             b1 == IF useCache
                   THEN [b EXCEPT !.cache =
                            getCachedResultsCache(@, searchQuery, category, page)]
                   ELSE b
             c == [stage |-> "sent", query |-> searchQuery, category |-> category,
                   page |-> page, isNewSearch |-> isNewSearch,
                   lastSearchQuery |-> b0.lastSearchQuery,
                   categoryCounts |-> b0.categoryCounts, userId |-> b0.userId]
         IN IF cached # NullEntry
            THEN PerformSearchCached(b1, cached, page)
            ELSE IF ApiSearchSkips(trim(searchQuery), category)
            THEN PerformSearchReceived(b1, c, ApiEmpty)
            ELSE SendSearch(b1, c)

\* The effect on [query, selectedCategory, multipleCategories, currentPage]
\* (308-342), run for the rendered state b0.
SearchEffect(b0, query, selectedCategory, currentPage) ==
    LET prevQuery == b0.prevSearch.query
        prevCategory == b0.prevSearch.category
        currentQuery == trim(query)
        currentCategory == OrElse(selectedCategory, <<>>)
        queryChanged == currentQuery # prevQuery
        categoryChanged == currentCategory # prevCategory
        isNewSearch == queryChanged \/ categoryChanged
        clears == isNewSearch /\ ~Falsy(prevQuery)
        b1 == [b0 EXCEPT
                 !.mounted = TRUE, !.query = query,
                 !.selectedCategory = selectedCategory,
                 !.currentPage = currentPage,
                 !.cache = IF clears THEN clearCacheForQuery(@, prevQuery) ELSE @,
                 !.isInitialLoad = IF clears THEN TRUE ELSE @,
                 !.prevSearch = [query |-> currentQuery, category |-> currentCategory],
                 !.lastSearchQuery = IF queryChanged THEN currentQuery ELSE @,
                 !.served = "none"]
    IN IF ~Falsy(query) /\ Len(trim(query)) > 0
       THEN performSearch(b1, b0, query, selectedCategory, currentPage, isNewSearch)
       ELSE IF ~Falsy(selectedCategory)
       THEN performSearch(b1, b0, <<>>, selectedCategory, currentPage, isNewSearch)
       ELSE PerformSearchNothing(b1)

(***************************************************************************)
(* Actions.                                                                *)
(***************************************************************************)
PathOf(rq) ==
    CASE rq.op = "understandQuery" -> rq.uPath
      [] rq.op = "generateOverview" -> rq.oPath
      [] rq.op = "rankResults" -> rq.rPath
      [] OTHER -> "none"

ClassTtl(o) ==
    CASE o = "understandQuery" -> CACHE_TTL_UNDERSTAND_QUERY
      [] o = "generateOverview" -> CACHE_TTL_OVERVIEW
      [] o = "rankResults" -> CACHE_TTL_RANKING
      [] OTHER -> 0

\* What a new direct call of the cached function o by request r remembers of
\* r's previous call.
PrevOf(rq, o) ==
    IF ClassTtl(o) > 0 /\ rq.op = o /\ rq.pc = "done" /\ ~rq.cleared
    THEN [has |-> TRUE, recent |-> now - rq.recordAt < ClassTtl(o),
          query |-> rq.query, results |-> rq.results, path |-> PathOf(rq),
          calls |-> rq.calls.understand + rq.calls.rank + rq.calls.overview,
          intent |-> rq.understanding, overview |-> rq.overview,
          ranked |-> rq.ranked,
          wrote |-> { e.key : e \in { x \in rq.effects : x.kind = "write" } }]
    ELSE NoPrev

StartReq(r, o, q) ==
    [IdleReq EXCEPT !.op = o, !.query = q, !.prev = PrevOf(req[r], o)]

CanStart(r) == req[r].pc \in {"idle", "done"}

\* Request r takes the step that leaves out; effects accumulates on base.
Apply(r, out, base) ==
    /\ caches' = out.caches
    /\ req' = [req EXCEPT ![r] =
                  [out.req EXCEPT !.effects = base \cup CacheDelta(caches, out.caches)]]
    /\ UNCHANGED <<now, browser>>

CallUnderstandQuery(r, q) ==
    /\ CanStart(r)
    /\ Apply(r, understandQueryEnter(StartReq(r, "understandQuery", q), caches, q), {})

\* A call of understandQuery by one of several concurrent requests, which
\* keep no history of their earlier calls.
ConcurrentUnderstandQuery(r, q) ==
    /\ CanStart(r)
    /\ Apply(r, understandQueryEnter(
                    [StartReq(r, "understandQuery", q) EXCEPT !.prev = NoPrev],
                    caches, q), {})

UnderstandReturns(r, ans) ==
    /\ req[r].pc = "u_await"
    /\ Apply(r, understandQueryResume(req[r], caches, ans), req[r].effects)

CallGenerateOverview(r, q, topResults) ==
    /\ CanStart(r)
    /\ Apply(r, generateOverviewEnter(
                    [StartReq(r, "generateOverview", q) EXCEPT !.results = topResults,
                                                                !.top = topResults],
                    caches, q, topResults), {})

OverviewReturns(r, ans) ==
    /\ req[r].pc = "o_await"
    /\ Apply(r, generateOverviewResume(req[r], caches, ans), req[r].effects)

CallRankResults(r, q, results) ==
    /\ CanStart(r)
    /\ Apply(r, rankResultsEnter(
                    [StartReq(r, "rankResults", q) EXCEPT !.results = results],
                    caches, q, results), {})

RankReturns(r, ans) ==
    /\ req[r].pc = "r_await"
    /\ Apply(r, rankResultsResume([req[r] EXCEPT !.rankAnswer = ans], caches, ans),
             req[r].effects)

SearchRequest(r, q, category, page, pageSize, userId, strapiApiKey) ==
    /\ CanStart(r)
    /\ browser.calls[r] = NoCall
    /\ Apply(r, SearchEnter(
                    [StartReq(r, "search", q) EXCEPT
                        !.category = category,
                        !.page = ParseIntOr(page, DEFAULT_PAGE),
                        !.pageSize = ParseIntOr(pageSize, DEFAULT_PAGE_SIZE),
                        !.userId = userId, !.strapiApiKey = strapiApiKey],
                    caches), {})

\* size: Math.min(pageSize * 2, 100)
EsSize(rq) == Min(rq.pageSize * 2, MAX_ES_SIZE)

\* from: (page - 1) * pageSize
EsFrom(rq) == (rq.page - 1) * rq.pageSize

\* The index engine answers the candidate search: at most size hits, taken
\* from offset from of the total matching documents.
EsReturns(r, es) ==
    /\ req[r].pc = "es_await"
    /\ es.kind = "ok" => /\ Len(es.hits) <= EsSize(req[r])
                         /\ Len(es.hits) <= es.total
                         /\ Len(es.hits) > 0 => EsFrom(req[r]) + Len(es.hits) <= es.total
    /\ Apply(r, SearchAfterEs(req[r], caches, es), req[r].effects)

AggReturns(r, agg) ==
    /\ req[r].pc = "agg_await"
    /\ Apply(r, SearchAfterAgg(req[r], caches, agg), req[r].effects)

\* The post of the search log is answered, or fails.
LogReturns(r) ==
    /\ req[r].pc = "log_await"
    /\ Apply(r, SearchAfterLog(req[r], caches), req[r].effects)

\* History of the direct cache writes of a caller: the class, key, value and
\* time of the most recent write, and whether the caches were cleared since.
PutsRecorded(puts, class, key, data) ==
    [NoCaches EXCEPT ![class] =
        MapSet(EmptyMap, key, [data |-> data, timestamp |-> now, cleared |-> FALSE])]

PutsCleared(puts) ==
    [cl \in CacheClasses |->
        [k \in DOMAIN puts[cl] |-> [puts[cl][k] EXCEPT !.cleared = TRUE]]]

\* The record of a direct call of the ai-cache export o, made at once.
CacheCall(r, o, q, results) ==
    [StartReq(r, o, q) EXCEPT !.pc = "done", !.results = results,
                              !.recordAt = now, !.puts = req[r].puts]

CallGetCachedUnderstanding(r, q) ==
    /\ CanStart(r)
    /\ Apply(r, Out([CacheCall(r, "getCachedUnderstanding", q, <<>>) EXCEPT
                        !.understanding = getCachedUnderstanding(caches, q)],
                    getCachedUnderstandingCaches(caches, q)), {})

CallCacheUnderstanding(r, q, data) ==
    /\ CanStart(r)
    /\ Apply(r, Out([CacheCall(r, "cacheUnderstanding", q, <<>>) EXCEPT
                        !.understanding = data,
                        !.puts = PutsRecorded(@, "understandQuery",
                                              getQueryCacheKey(q), data)],
                    cacheUnderstanding(caches, q, data)), {})

CallGetCachedSuggestions(r, q) ==
    /\ CanStart(r)
    /\ Apply(r, Out([CacheCall(r, "getCachedSuggestions", q, <<>>) EXCEPT
                        !.suggestions = getCachedSuggestions(caches, q)],
                    getCachedSuggestionsCaches(caches, q)), {})

CallCacheSuggestions(r, q, data) ==
    /\ CanStart(r)
    /\ Apply(r, Out([CacheCall(r, "cacheSuggestions", q, <<>>) EXCEPT
                        !.suggestions = data,
                        !.puts = PutsRecorded(@, "suggestions",
                                              getQueryCacheKey(q), data)],
                    cacheSuggestions(caches, q, data)), {})

CallGetCachedOverview(r, q, topResults) ==
    /\ CanStart(r)
    /\ Apply(r, Out([CacheCall(r, "getCachedOverview", q, topResults) EXCEPT
                        !.overview = getCachedOverview(caches, q, topResults)],
                    getCachedOverviewCaches(caches, q, topResults)), {})

CallCacheOverview(r, q, topResults, data) ==
    /\ CanStart(r)
    /\ Apply(r, Out([CacheCall(r, "cacheOverview", q, topResults) EXCEPT
                        !.overview = data,
                        !.puts = PutsRecorded(@, "overview",
                                              getResultsCacheKey(q, topResults), data)],
                    cacheOverview(caches, q, topResults, data)), {})

CallGetCachedRanking(r, q, results) ==
    /\ CanStart(r)
    /\ Apply(r, Out([CacheCall(r, "getCachedRanking", q, results) EXCEPT
                        !.ranked = getCachedRanking(caches, q, results)],
                    getCachedRankingCaches(caches, q, results)), {})

CallCacheRanking(r, q, results, data) ==
    /\ CanStart(r)
    /\ Apply(r, Out([CacheCall(r, "cacheRanking", q, results) EXCEPT
                        !.ranked = data,
                        !.puts = PutsRecorded(@, "ranking",
                                              getResultsCacheKey(q, results), data)],
                    cacheRanking(caches, q, results, data)), {})

\* setInterval(cleanExpiredEntries, 10 minutes): the timer fires.
Sweep ==
    /\ caches' = cleanExpiredEntries(caches)
    /\ caches' # caches
    /\ UNCHANGED <<now, req, browser>>

\* GET /suggest?q=...
SuggestRequest(r, q) ==
    /\ CanStart(r)
    /\ Apply(r, SuggestEnter([IdleReq EXCEPT !.op = "suggest", !.query = q], caches), {})

\* The suggestion service answers a generateSuggestions call, or fails.
SuggestionsReturns(r, ans) ==
    /\ req[r].pc = "s_await"
    /\ Apply(r, generateSuggestionsResume(req[r], caches, ans), req[r].effects)

\* size: 5
SUGGEST_ES_SIZE == 5

\* The index engine answers the search of /suggest, or fails.
SuggestEsReturns(r, es) ==
    /\ req[r].pc = "ses_await"
    /\ Len(es.hits) <= SUGGEST_ES_SIZE
    /\ Apply(r, SuggestAfterEs(req[r], caches, es), req[r].effects)

\* Time passes while /suggest requests run.
SuggestTick(dt) ==
    /\ now + dt <= SuggestMaxTime
    /\ now' = now + dt
    /\ UNCHANGED <<caches, req, browser>>

\* GET /cache/stats (elasticsearch-init.js 941-948).
CallGetCacheStats(r) ==
    /\ CanStart(r)
    /\ Apply(r, Out([CacheCall(r, "getCacheStats", <<>>, <<>>) EXCEPT
                        !.stats = getCacheStats(caches)],
                    getCacheStatsCaches(caches)), {})

\* POST /cache/clear.
ClearAllCaches ==
    /\ caches # NoCaches
    /\ caches' = clearAllCaches(caches)
    /\ req' = [r \in Req |-> [req[r] EXCEPT !.cleared = TRUE,
                                             !.puts = PutsCleared(@)]]
    /\ UNCHANGED <<now, browser>>

\* Time passes.
Tick(dt) ==
    /\ now + dt <= MaxTime
    /\ now' = now + dt
    /\ UNCHANGED <<caches, req, browser>>

\* The search page mounts at /search?query=..&category=..&page=..: the state
\* starts from the URL, the effect of 302-306 sets the page it already has
\* and the effect of 308-342 runs.
Mount(query, category, page, userId) ==
    /\ ~browser.mounted
    /\ LET b0 == [browser EXCEPT !.userId = userId]
           b == SearchEffect(b0, query, category, page)
       IN /\ b.served # "overflow"
          /\ browser' = b
    /\ UNCHANGED <<now, caches, req>>

\* router.push: the URL of the mounted page changes.  The page renders with
\* the new query and the page number of its state: the effect of 302-306 calls setCurrentPage,
\* the effect of 308-342 runs when the query changed.  A page number that
\* differs schedules a render.  React renders a scheduled update before the
\* navigation, and the user's next event follows the commit of a navigation
\* that is under way.  The handlers that call it do nothing but router.push,
\* so the push and its commit are one step.
UrlChanges(query, page) ==
    /\ browser.mounted
    /\ browser.urlChanges < MaxUrlChanges
    /\ ~browser.effectDue
    /\ ~browser.navigating
    /\ <<query, page>> # <<browser.query, browser.currentPage>>
    /\ LET b == IF query # browser.query
                THEN SearchEffect(browser, query, browser.selectedCategory,
                                  browser.currentPage)
                ELSE browser
       IN /\ b.served # "overflow"
          /\ browser' = [b EXCEPT !.currentPage = page,
                                  !.effectDue = (page # browser.currentPage),
                                  !.urlChanges = @ + 1]
    /\ UNCHANGED <<now, caches, req>>

\* part_002 618-622: router.push with the page parameter set.
handlePageChange(newPage) == UrlChanges(browser.query, newPage)

\* part_002 604-616, the onChange of the category select (the value differs
\* from the selected one): setSelectedCategory(newCategory), and router.push
\* with the category parameter set or deleted and page=1.  The state update
\* renders in the handler's task, before the navigation commits: the page
\* renders with the new category, the URL and the page number it had, and
\* the effect of 308-342 runs for them.  The navigation is under way.
handleCategoryChange(newCategory) ==
    /\ browser.mounted
    /\ browser.urlChanges < MaxUrlChanges
    /\ ~browser.effectDue
    /\ ~browser.navigating
    /\ newCategory # browser.selectedCategory
    /\ LET b == SearchEffect(browser, browser.query, newCategory,
                             browser.currentPage)
       IN /\ b.served # "overflow"
          /\ browser' = [b EXCEPT !.navigating = TRUE, !.urlChanges = @ + 1]
    /\ UNCHANGED <<now, caches, req>>

\* The router.push of handleCategoryChange commits: searchParams changes,
\* the query is the same, and the effect of 302-306 calls setCurrentPage(1),
\* which schedules a render when the page was another.
NavigationCommits ==
    /\ browser.navigating
    /\ browser' = [browser EXCEPT !.navigating = FALSE, !.currentPage = 1,
                                  !.effectDue = (browser.currentPage # 1)]
    /\ UNCHANGED <<now, caches, req>>

\* SearchBar.tsx 391-399: router.push of /search?query=<trimmed query>, for a
\* query that is not blank; the URL names no page, which the page reads as
\* page 1 (part_002 304).
handleSearch(query) ==
    /\ Len(trim(query)) > 0
    /\ UrlChanges(trim(query), 1)

\* The render setCurrentPage scheduled: the effect of 308-342 runs with the
\* new page.
Rerender ==
    /\ browser.effectDue
    /\ LET b == SearchEffect([browser EXCEPT !.effectDue = FALSE], browser.query,
                             browser.selectedCategory, browser.currentPage)
       IN /\ b.served # "overflow"
          /\ browser' = b
    /\ UNCHANGED <<now, caches, req>>

\* The GET /search of a performSearch call reaches the handler, in a process
\* with the given STRAPI_API_KEY; pageSize is 10.
RequestArrives(r, strapiApiKey) ==
    /\ browser.calls[r].stage = "sent"
    /\ CanStart(r)
    /\ LET c == browser.calls[r]
           out == SearchEnter(
                      [StartReq(r, "search", trim(c.query))
                          EXCEPT !.category = c.category,
                                 !.page = ParseIntOr(c.page, DEFAULT_PAGE),
                                 !.pageSize = PAGE_SIZE,
                                 !.userId = c.userId,
                                 !.strapiApiKey = strapiApiKey],
                      caches)
       IN /\ browser' = [browser EXCEPT !.calls[r].stage = "arrived"]
          /\ caches' = out.caches
          /\ req' = [req EXCEPT ![r] =
                        [out.req EXCEPT !.effects = CacheDelta(caches, out.caches)]]
          /\ UNCHANGED now

\* Direct calls of getCachedResults and cacheResults.
CallGetCachedResults(query, category, page) ==
    /\ browser' =
          [browser EXCEPT
              !.cache = getCachedResultsCache(@, query, category, page),
              !.direct = [@ EXCEPT
                  !.name = "getCachedResults", !.query = query,
                  !.category = category, !.page = page,
                  !.returned = getCachedResults(browser.cache, query, category, page)]]
    /\ UNCHANGED <<now, caches, req>>

CallCacheResults(query, category, page, data) ==
    /\ browser' =
          [browser EXCEPT
              !.cache = cacheResults(@, query, category, page, data),
              !.direct = [@ EXCEPT
                  !.name = "cacheResults", !.query = query,
                  !.category = category, !.page = page, !.returned = NullEntry,
                  !.written = MapSet(@, ResultTriple(query, category, page),
                                     [data |-> data, timestamp |-> now])]]
    /\ UNCHANGED <<now, caches, req>>

\* A direct call of clearCacheForQuery.
CallClearCacheForQuery(query) ==
    /\ browser' =
          [browser EXCEPT
              !.cache = clearCacheForQuery(@, query),
              !.direct = [@ EXCEPT
                  !.name = "clearCacheForQuery", !.query = query,
                  !.category = <<>>, !.page = 0, !.returned = NullEntry,
                  !.before = browser.cache]]
    /\ UNCHANGED <<now, caches, req>>

\* Time passes in the browser.
ResultTick(dt) ==
    /\ now + dt <= ResultMaxTime
    /\ now' = now + dt
    /\ UNCHANGED <<caches, req, browser>>

\* A direct call of clearAllCache.
CallClearAllCache ==
    /\ browser' =
          [browser EXCEPT
              !.cache = clearAllCache(@),
              !.direct = [@ EXCEPT
                  !.name = "clearAllCache", !.query = <<>>,
                  !.category = <<>>, !.page = 0, !.returned = NullEntry,
                  !.written = EmptyMap, !.before = browser.cache]]
    /\ UNCHANGED <<now, caches, req>>

\* A direct call of preCacheAllPages: fetchPage is called for the pages 2 to
\* min(3, totalPages) and the function returns.
CallPreCacheAllPages(query, category, totalPages) ==
    /\ Len(browser.direct.fetching) + Len(PagesToPreCache(totalPages)) <= MaxFetching
    /\ browser' =
          [browser EXCEPT
              !.direct = [@ EXCEPT
                  !.name = "preCacheAllPages", !.query = query,
                  !.category = category, !.page = 0, !.returned = NullEntry,
                  !.fetching = @ \o PreCacheFetches(query, category, totalPages)]]
    /\ UNCHANGED <<now, caches, req>>

\* The promise of a fetchPage call resolves with data: the then callback
\* calls cacheResults.
FetchPageResolves(i, data) ==
    /\ i \in 1..Len(browser.direct.fetching)
    /\ LET f == browser.direct.fetching[i]
       IN browser' =
             [browser EXCEPT
                 !.cache = cacheResults(@, f.query, f.category, f.page, data),
                 !.direct = [@ EXCEPT
                     !.name = "cacheResults", !.query = f.query,
                     !.category = f.category, !.page = f.page,
                     !.returned = NullEntry,
                     !.written = MapSet(@, ResultTriple(f.query, f.category, f.page),
                                        [data |-> data, timestamp |-> now]),
                     !.fetching = RemoveAt(@, i)]]
    /\ UNCHANGED <<now, caches, req>>

\* The promise of a fetchPage call rejects: the catch callback does nothing.
FetchPageRejects(i) ==
    /\ i \in 1..Len(browser.direct.fetching)
    /\ browser' = [browser EXCEPT !.direct.fetching = RemoveAt(@, i)]
    /\ UNCHANGED <<now, caches, req>>

\* The API client returns the response of request r to the performSearch
\* call that awaits it.
BrowserReceives(r) ==
    /\ browser.calls[r].stage = "arrived"
    /\ req[r].pc = "done"
    /\ browser' = PerformSearchReceived([browser EXCEPT !.calls[r] = NoCall],
                      browser.calls[r], ApiSearchResult(req[r].response))
    /\ UNCHANGED <<now, caches, req>>

\* The animation frame runs: the callback of 579-583 sets the overview and
\* the correction of the page-1 response that registered it.
AnimationFrame ==
    /\ browser.frame.due
    /\ browser' = [browser EXCEPT !.overview = browser.frame.overview,
                                  !.didYouMean = browser.frame.didYouMean,
                                  !.frame = NoFrame]
    /\ UNCHANGED <<now, caches, req>>

(***************************************************************************)
(* Specifications.                                                         *)
(***************************************************************************)
Init ==
    /\ now = 1
    /\ caches = NoCaches
    /\ req = [r \in Req |-> IdleReq]
    /\ browser = BrowserInit

\* What the understanding service can answer.  kind "throw": the call fails
\* (timeout, non-2xx, no API key); "badjson": content that JSON.parse rejects;
\* "ok": content parsed into the record parsed.
Parsed(i, c, k, cq, e, s, d) ==
    [intent |-> i, category |-> c, keywords |-> k, correctedQuery |-> cq,
     expandedTerms |-> e, synonyms |-> s, didYouMean |-> d]

UnderstandAnswers ==
    { [kind |-> "throw", parsed |-> EmptyParsed],
      [kind |-> "badjson", parsed |-> EmptyParsed],
      [kind |-> "ok", parsed |->
          Parsed("search", <<"b">>, << <<"a">> >>, <<"a", "b">>, <<>>, <<>>, <<>>)],
      [kind |-> "ok", parsed |->
          Parsed("category-keyword", <<"c">>, << <<"a">> >>, NullStr,
                 << <<"a", "b">> >>, <<>>, <<"a">>)] }

\* Queries given to understandQuery.
UnderstandQueries ==
    { <<>>, <<" ">>, <<"a">>, <<"A", " ">>, <<" ", "a", " ", " ", "b">> }

\* Sequential calls of understandQuery, with the sweep, the clear and time.
NextUnderstand ==
    \/ \E r \in SeqReq, q \in UnderstandQueries : CallUnderstandQuery(r, q)
    \/ \E r \in SeqReq, ans \in UnderstandAnswers : UnderstandReturns(r, ans)
    \/ Sweep
    \/ ClearAllCaches
    \/ \E dt \in TickSteps : Tick(dt)

SpecUnderstand == Init /\ [][NextUnderstand]_vars

\* Queries of concurrent understandQuery calls: two spellings of one key.
ConcurrentQueries == { <<"a">>, <<"A", " ">> }

\* What the service answers them: it fails, or one of two records comes.
ConcurrentAnswers == { a \in UnderstandAnswers : a.kind # "badjson" }

\* Calls of understandQuery by all the requests, interleaved at their awaits,
\* with the sweep and time.
NextConcurrent ==
    \/ \E r \in Req, q \in ConcurrentQueries : ConcurrentUnderstandQuery(r, q)
    \/ \E r \in Req, ans \in ConcurrentAnswers : UnderstandReturns(r, ans)
    \/ Sweep
    \/ \E dt \in CacheTickSteps : Tick(dt)

SpecConcurrent == Init /\ [][NextConcurrent]_vars

\* Documents of the index.
D(n) == Doc(<<n>>, <<"u", n>>, <<"b">>)

\* A document indexed without an id: its url identifies it.
DocNoId == Doc(Undefined, <<"u", "9">>, <<"b">>)

\* What the overview service can answer: the call fails, or content comes.
OverviewAnswers ==
    { [kind |-> "throw", content |-> <<>>],
      [kind |-> "ok", content |-> <<"o", " ">>],
      [kind |-> "ok", content |-> <<" ">>] }

OverviewQueries == { <<>>, <<"q">> }

OverviewLists == { <<>>, << D("1") >>, << D("1"), DocNoId >> }

\* Sequential calls of generateOverview, with the sweep, the clear and time.
NextOverview ==
    \/ \E r \in SeqReq, q \in OverviewQueries, l \in OverviewLists :
          CallGenerateOverview(r, q, l)
    \/ \E r \in SeqReq, ans \in OverviewAnswers : OverviewReturns(r, ans)
    \/ Sweep
    \/ ClearAllCaches
    \/ \E dt \in TickSteps : Tick(dt)

SpecOverview == Init /\ [][NextOverview]_vars

\* What the ranking service can answer: the call fails, or rankedIndices come.
RankAnswers ==
    { [kind |-> "throw", rankedIndices |-> <<>>],
      [kind |-> "null", rankedIndices |-> <<>>],
      [kind |-> "badjson", rankedIndices |-> <<>>],
      [kind |-> "string", rankedIndices |-> <<0, 1, 2, 3>>],
      [kind |-> "ok", rankedIndices |-> <<3, 2, 1, 0>>],
      [kind |-> "ok", rankedIndices |-> <<0, 0, 1, 7>>],
      [kind |-> "ok", rankedIndices |-> <<0>>] }

ListA == << D("1"), D("2"), D("3"), D("4") >>
ListB == << D("1"), D("2"), D("3"), D("5") >>

\* A list of RANK_MAX_RESULTS + 1 documents, the first three those of ListA.
LargeIds ==
    << "1", "2", "3", "d", "e", "f", "g", "h", "i", "j", "k", "l", "m", "n",
       "o", "p", "q", "r", "s", "t", "u", "v", "w", "x", "y", "z" >>

LargeList == [i \in 1..(RANK_MAX_RESULTS + 1) |-> D(LargeIds[i])]

RankLists == { <<>>, ListA, ListB, LargeList }

RankQueries == { <<"q">> }

\* Sequential calls of rankResults, with the sweep, the clear and time.
NextRank ==
    \/ \E r \in SeqReq, q \in RankQueries, l \in RankLists : CallRankResults(r, q, l)
    \/ \E r \in SeqReq, ans \in RankAnswers : RankReturns(r, ans)
    \/ Sweep
    \/ ClearAllCaches
    \/ \E dt \in TickSteps : Tick(dt)

SpecRank == Init /\ [][NextRank]_vars

\* What the index engine can answer to the candidate search.
EsAnswers ==
    { [kind |-> "throw", hits |-> <<>>, total |-> 0, message |-> <<"e">>],
      [kind |-> "ok", hits |-> <<>>, total |-> 0, message |-> NullStr],
      [kind |-> "ok", hits |-> << D("1"), D("2") >>, total |-> 23,
       message |-> NullStr] }

\* What the index engine can answer to the category aggregation.
AggAnswers ==
    { [kind |-> "throw", buckets |-> EmptyMap, total |-> 0],
      [kind |-> "ok", buckets |-> MapSet(EmptyMap, <<"b">>, 23), total |-> 23] }

\* What the ranking service answers for two candidates.
SearchRankAnswers ==
    { [kind |-> "ok", rankedIndices |-> <<1, 0>>] }

SearchQueries == { <<>>, <<" ">>, <<"a">> }

SearchCategories == { <<>>, <<"b">>, <<" ">> }

\* page and pageSize parameters of GET /search; 0 stands for an absent one.
SearchPages == { 0, 3 }

SearchPageSizes == { 0, 1 }

SearchTickSteps == { 60 }

\* The user id a request carries (absent, or u) and the STRAPI_API_KEY of
\* the process handling it (unset, or k).
NoSearchLog == << Undefined, <<>> >>

SearchLogs == { NoSearchLog, << <<"u">>, <<"k">> >>, << <<"u">>, <<>> >> }

\* The requests that name their user are those for query a in all
\* categories with the default page size.
SearchLogsFor(q, c, ps) ==
    IF q = <<"a">> /\ c = <<>> /\ ps = 0 THEN SearchLogs ELSE { NoSearchLog }

\* GET /search requests, one at a time.
NextSearch ==
    \/ \E r \in SeqReq, q \in SearchQueries, c \in SearchCategories,
          p \in SearchPages, ps \in SearchPageSizes :
              \E l \in SearchLogsFor(q, c, ps) :
                  SearchRequest(r, q, c, p, ps, l[1], l[2])
    \/ \E r \in SeqReq, ans \in UnderstandAnswers : UnderstandReturns(r, ans)
    \/ \E r \in SeqReq, es \in EsAnswers : EsReturns(r, es)
    \/ \E r \in SeqReq, ans \in SearchRankAnswers : RankReturns(r, ans)
    \/ \E r \in SeqReq, ans \in OverviewAnswers : OverviewReturns(r, ans)
    \/ \E r \in SeqReq, agg \in AggAnswers : AggReturns(r, agg)
    \/ \E r \in SeqReq : LogReturns(r)
    \/ \E dt \in SearchTickSteps : Tick(dt)

SpecSearch == Init /\ [][NextSearch]_vars

\* What the search page is asked to show.
BrowserQueries == { <<"a">>, <<"b">> }

BrowserCategories == { <<>> }

BrowserPages == { 1, 2 }

\* What the services answer in the specification of the search page.
BrowserUnderstandAnswers ==
    { a \in UnderstandAnswers : a.kind = "ok" /\ Truthy(a.parsed.didYouMean) }

BrowserEsAnswers == { e \in EsAnswers : e.kind = "throw" \/ Len(e.hits) > 0 }

BrowserAggAnswers == { a \in AggAnswers : a.kind = "ok" }

\* The user id the page gets from getUserId, and the STRAPI_API_KEY of the
\* process that handles its requests.
BrowserUserIds == { <<"u">> }

BrowserStrapiKeys == { <<"k">> }

\* The values chosen in the category select.
BrowserSelectCategories == { <<>>, <<"b">> }

BrowserOverviewAnswers == { a \in OverviewAnswers : a.content = <<"o", " ">> }

\* The query of the URL the page mounts at, and the queries typed in the
\* search bar.
BrowserMountQueries == { <<"a">> }

BrowserBarQueries == { <<"b">> }

\* The handler is entered while no other request is being handled.
OneAtATime == \A r \in Req : CanStart(r)

\* The search page with up to two GET /search in flight, which reach the
\* handler one after the other and are answered in either order.  Time
\* stands still here: the expiry of the entries of the result cache is
\* followed in SpecResultCache.
NextBrowser ==
    \/ \E q \in BrowserMountQueries, c \in BrowserCategories, p \in BrowserPages,
          u \in BrowserUserIds : Mount(q, c, p, u)
    \/ \E p \in BrowserPages : handlePageChange(p)
    \/ \E q \in BrowserBarQueries : handleSearch(q)
    \/ \E c \in BrowserSelectCategories : handleCategoryChange(c)
    \/ NavigationCommits
    \/ Rerender
    \/ \E r \in BrowserSlots, k \in BrowserStrapiKeys :
          OneAtATime /\ RequestArrives(r, k)
    \/ \E r \in BrowserSlots : BrowserReceives(r)
    \/ AnimationFrame
    \/ \E r \in BrowserSlots, ans \in BrowserUnderstandAnswers :
          UnderstandReturns(r, ans)
    \/ \E r \in BrowserSlots, es \in BrowserEsAnswers : EsReturns(r, es)
    \/ \E r \in BrowserSlots, ans \in SearchRankAnswers : RankReturns(r, ans)
    \/ \E r \in BrowserSlots, ans \in BrowserOverviewAnswers :
          OverviewReturns(r, ans)
    \/ \E r \in BrowserSlots, agg \in BrowserAggAnswers : AggReturns(r, agg)
    \/ \E r \in BrowserSlots : LogReturns(r)

SpecBrowser == Init /\ [][NextBrowser]_vars

\* The inputs of the direct calls of ai-cache: the queries, the lists whose
\* ids enter the key, and the values written.
CacheQueries == { <<"a">>, <<"b">> }
CacheSmallQueries == { <<"a">> }
CacheLists == { << D("1") >> }
CacheIntents ==
    { Intent("search", NullStr, << <<"a">> >>, NullStr, <<>>, <<>>, NullStr) }
CacheSuggestionLists == { << <<"a", "b">> >> }
CacheOverviews == { <<"o">>, <<"p">> }
CacheRankings == { << D("1") >> }

\* Direct calls of the get and put functions of the four cache classes, with
\* the sweep, the clear and time, in any order.
NextCache ==
    \/ \E r \in SeqReq, q \in CacheQueries : CallGetCachedUnderstanding(r, q)
    \/ \E r \in SeqReq, q \in CacheQueries, d \in CacheIntents :
          CallCacheUnderstanding(r, q, d)
    \/ \E r \in SeqReq, q \in CacheSmallQueries : CallGetCachedSuggestions(r, q)
    \/ \E r \in SeqReq, q \in CacheSmallQueries, d \in CacheSuggestionLists :
          CallCacheSuggestions(r, q, d)
    \/ \E r \in SeqReq, q \in CacheSmallQueries, l \in CacheLists :
          CallGetCachedOverview(r, q, l)
    \/ \E r \in SeqReq, q \in CacheSmallQueries, l \in CacheLists,
          d \in CacheOverviews : CallCacheOverview(r, q, l, d)
    \/ \E r \in SeqReq, q \in CacheSmallQueries, l \in CacheLists :
          CallGetCachedRanking(r, q, l)
    \/ \E r \in SeqReq, q \in CacheSmallQueries, l \in CacheLists,
          d \in CacheRankings : CallCacheRanking(r, q, l, d)
    \/ \E r \in SeqReq : CallGetCacheStats(r)
    \/ Sweep
    \/ ClearAllCaches
    \/ \E dt \in CacheTickSteps : Tick(dt)

SpecCache == Init /\ [][NextCache]_vars

\* The arguments and data of the direct calls of the browser's result cache.
ResultQueries == { <<"a">>, <<" ", "A">> }
\* Pairs of a category and a page.
ResultSlots == { << <<>>, 1 >>, << <<>>, 2 >>, << <<"b">>, 1 >> }
ResultData ==
    { CachedSearchResult(<< D("1") >>, 1, EmptyMap, 1, <<"o">>, NullStr, "search", 0),
      CachedSearchResult(<<>>, 0, EmptyMap, 0, NullStr, NullStr, "search", 0) }

NextResultCache ==
    \/ \E q \in ResultQueries, s \in ResultSlots :
          CallGetCachedResults(q, s[1], s[2])
    \/ \E q \in ResultQueries, s \in ResultSlots, d \in ResultData :
          CallCacheResults(q, s[1], s[2], d)
    \/ \E dt \in ResultTickSteps : ResultTick(dt)

SpecResultCache == Init /\ [][NextResultCache]_vars

\* A direct call of buildElasticsearchQuery(understanding, categoryFilter).
CallBuildElasticsearchQuery(r, u, categoryFilter) ==
    /\ CanStart(r)
    /\ Apply(r, Out([IdleReq EXCEPT !.op = "buildElasticsearchQuery", !.pc = "done",
                                     !.understanding = u, !.category = categoryFilter,
                                     !.esQuery = buildElasticsearchQuery(u, categoryFilter)],
                    caches), {})

\* Search terms: empty, whitespace only, of length 1, 2 and 3, and one with
\* inner whitespace.
BuilderTerms ==
    { <<>>, <<" ">>, <<"a">>, <<"a", "b">>, <<"A", "b", "c">>, <<"a", " ", "b">> }

BuilderKeywords ==
    { <<>> } \cup { <<t>> : t \in BuilderTerms }
        \cup { <<t1, t2>> : t1 \in BuilderTerms, t2 \in BuilderTerms }

BuilderExpandedTerms == { <<>>, << <<" ">> >>, << <<"a", "b", "c">> >> }

BuilderIntents ==
    { Intent(i, c, k, NullStr, e, <<>>, NullStr) :
        i \in {"search", "category-only"}, c \in {NullStr, <<"c">>},
        k \in BuilderKeywords, e \in BuilderExpandedTerms }

BuilderFilters == { NullStr, <<"b">>, <<" ">> }

NextBuilder ==
    \E r \in SeqReq, u \in BuilderIntents, f \in BuilderFilters :
        CallBuildElasticsearchQuery(r, u, f)

SpecBuilder == Init /\ [][NextBuilder]_vars

\* The documents of an unchanged index that match the query, in the order
\* the index engine scores them.
PagedIndex == << D("1"), D("2"), D("3") >>

\* What the index engine answers to the candidate search of rq over that
\* index: size hits from offset from, and the number of matching documents.
IndexAnswer(rq) ==
    [kind |-> "ok", hits |-> slice(PagedIndex, EsFrom(rq), EsFrom(rq) + EsSize(rq)),
     total |-> Len(PagedIndex), message |-> NullStr]

IndexReturns(r) == EsReturns(r, IndexAnswer(req[r]))

\* The two requests for the pages of one search.
PageReq == {1, 2}

PagedQuery == <<"a">>
PagedCategory == <<"b">>
PagedPageSize == 2
PagedPages == {1, 2}

PagedUnderstandAnswers == { a \in UnderstandAnswers : a.parsed.intent = "search" }

\* The ranking service moves the third candidate to the front, or answers a
\* single candidate.
PagedRankAnswers ==
    { [kind |-> "ok", rankedIndices |-> <<2, 0, 1>>],
      [kind |-> "ok", rankedIndices |-> <<0>>] }

PagedOverviewAnswers == { a \in OverviewAnswers : a.kind = "throw" }

PagedAggAnswers == { a \in AggAnswers : a.kind = "ok" }

\* GET /search for the pages of one query, category and pageSize, by two
\* requests against the unchanged index.
NextPages ==
    \/ \E r \in PageReq, p \in PagedPages :
          SearchRequest(r, PagedQuery, PagedCategory, p, PagedPageSize, NoSearchLog[1], NoSearchLog[2])
    \/ \E r \in PageReq, ans \in PagedUnderstandAnswers : UnderstandReturns(r, ans)
    \/ \E r \in PageReq : IndexReturns(r)
    \/ \E r \in PageReq, ans \in PagedRankAnswers : RankReturns(r, ans)
    \/ \E r \in PageReq, ans \in PagedOverviewAnswers : OverviewReturns(r, ans)
    \/ \E r \in PageReq, agg \in PagedAggAnswers : AggReturns(r, agg)

SpecPages == Init /\ [][NextPages]_vars

\* An unchanged index of 24 documents that match the query, in the order the
\* index engine scores them: the last one is of category c, the others are
\* of category b.
FilteredIndex ==
    [i \in 1..24 |->
        Doc(<<LargeIds[i]>>, <<"u", LargeIds[i]>>,
            IF i < 24 THEN <<"b">> ELSE <<"c">>)]

\* What the index engine answers to the candidate search of rq over that
\* index: the documents that satisfy every mandatory term clause of the
\* query sent; size hits from offset from, and the number that match.
FilteredAnswer(rq) ==
    LET Matches(d) ==
            \A i \in 1..Len(rq.esQuery.must) :
                (rq.esQuery.must[i].kind = "term"
                    /\ rq.esQuery.must[i].field = "category")
                  => d.category = rq.esQuery.must[i].value
        matching == SelectSeq(FilteredIndex, Matches)
    IN [kind |-> "ok",
        hits |-> slice(matching, EsFrom(rq), EsFrom(rq) + EsSize(rq)),
        total |-> Len(matching), message |-> NullStr]

FilteredReturns(r) == EsReturns(r, FilteredAnswer(req[r]))

FilteredQuery == <<"a">>
FilteredCategories == { <<>>, <<"b">> }
FilteredPages == { 2, 3 }

\* The understanding service answers content that does not parse, so that
\* no category is detected, or an understanding with category b.
FilteredUnderstandAnswers ==
    { a \in UnderstandAnswers : a.kind = "badjson" \/ a.parsed.intent = "search" }

\* The ranking service reverses four candidates, or three.
FilteredRankAnswers ==
    { [kind |-> "ok", rankedIndices |-> <<3, 2, 1, 0>>],
      [kind |-> "ok", rankedIndices |-> <<2, 1, 0>>] }

\* GET /search for the pages 2 and 3 of one query by pages of 10, with and
\* without the category filter, one request after the other against the
\* unchanged index.
NextFiltered ==
    \/ \E r \in SeqReq, c \in FilteredCategories, p \in FilteredPages :
          SearchRequest(r, FilteredQuery, c, p, 0, NoSearchLog[1], NoSearchLog[2])
    \/ \E r \in SeqReq, ans \in FilteredUnderstandAnswers : UnderstandReturns(r, ans)
    \/ \E r \in SeqReq : FilteredReturns(r)
    \/ \E r \in SeqReq, ans \in FilteredRankAnswers : RankReturns(r, ans)
    \/ \E r \in SeqReq, agg \in PagedAggAnswers : AggReturns(r, agg)

SpecFiltered == Init /\ [][NextFiltered]_vars

\* What the suggestion service answers: it fails, its content has no
\* suggestions (or does not parse), or it holds one or two suggestions.
SuggestAnswers ==
    { [kind |-> "throw", suggestions |-> <<>>],
      [kind |-> "ok", suggestions |-> <<>>],
      [kind |-> "ok", suggestions |-> << <<"a", "b">> >>],
      [kind |-> "ok", suggestions |-> << <<"a", "b">>, <<"c">> >>] }

\* What the index engine answers to the search of /suggest.
SuggestEsAnswers ==
    { [kind |-> "throw", hits |-> <<>>],
      [kind |-> "ok", hits |-> <<>>],
      [kind |-> "ok", hits |->
          << SuggestionItem(<<"1">>, <<"u", "1">>, <<"A", "b">>, <<>>, <<"b">>) >>] }

SuggestQueries == { <<>>, <<" ">>, <<"a">> }

\* GET /suggest requests, one at a time, with the sweep, the clear and time.
NextSuggest ==
    \/ \E r \in SeqReq, q \in SuggestQueries : SuggestRequest(r, q)
    \/ \E r \in SeqReq, ans \in SuggestAnswers : SuggestionsReturns(r, ans)
    \/ \E r \in SeqReq, es \in SuggestEsAnswers : SuggestEsReturns(r, es)
    \/ Sweep
    \/ ClearAllCaches
    \/ \E dt \in SuggestTickSteps : SuggestTick(dt)

SpecSuggest == Init /\ [][NextSuggest]_vars

\* Queries whose result pages are cached and cleared: two spellings of one
\* query, and a query that continues it after a "|".
ClearQueries == { <<"a">>, <<"A", " ">>, <<"a", "|", "b">> }

ClearSlots == { << <<>>, 2 >>, << <<"b">>, 3 >> }

ClearData ==
    { CachedSearchResult(<< D("1") >>, 1, EmptyMap, 1, NullStr, NullStr, "search", 0) }

\* The arguments of preCacheAllPages: the query, and the number of pages.
PreCacheQueries == { <<"a">> }

PreCacheTotalPages == { 1, 2, 5 }

\* Direct calls of cacheResults, preCacheAllPages, clearCacheForQuery and
\* clearAllCache; the fetchPage promises settle in any order.
NextClear ==
    \/ \E q \in ClearQueries, s \in ClearSlots, d \in ClearData :
          CallCacheResults(q, s[1], s[2], d)
    \/ \E q \in ClearQueries : CallClearCacheForQuery(q)
    \/ CallClearAllCache
    \/ \E q \in PreCacheQueries, tp \in PreCacheTotalPages :
          CallPreCacheAllPages(q, <<>>, tp)
    \/ \E i \in 1..MaxFetching, d \in ClearData : FetchPageResolves(i, d)
    \/ \E i \in 1..MaxFetching : FetchPageRejects(i)

SpecClear == Init /\ [][NextClear]_vars

(***************************************************************************)
(* Properties.                                                             *)
(***************************************************************************)
Done(r, o) == req[r].pc = "done" /\ req[r].op = o

\* The call of request r directly follows a call of the same function with
\* the same arguments, entered within the TTL of what that call returned,
\* with no clear in between.
Repeated(r, o) ==
    /\ Done(r, o)
    /\ req[r].prev.has
    /\ req[r].prev.recent
    /\ req[r].prev.query = req[r].query
    /\ req[r].prev.results = req[r].results

\* The non-empty whitespace-separated tokens of q, in order: the maximal
\* runs of non-whitespace characters.
TokenStarts(q) ==
    { i \in 1..Len(q) : q[i] \notin WS /\ (i = 1 \/ q[i - 1] \in WS) }

TokenEnd(q, i) ==
    CHOOSE j \in i..Len(q) :
        /\ \A k \in i..j : q[k] \notin WS
        /\ (j = Len(q) \/ q[j + 1] \in WS)

Tokens(q) ==
    LET starts == TokenStarts(q)
        nth(n) == CHOOSE i \in starts : Cardinality({ j \in starts : j < i }) = n - 1
    IN [n \in 1..Cardinality(starts) |-> SubSeq(q, nth(n), TokenEnd(q, nth(n)))]

UnderstandKey(r) == getQueryCacheKey(req[r].query)

\* C4 as stated: two sequential understandQuery(query) calls within the TTL
\* issue at most one service call in total, and the second returns the same
\* intent record as the first.
C4_AsStated ==
    \A r \in SeqReq :
        (Repeated(r, "understandQuery") /\ ~IsBlankQuery(req[r].query)) =>
            /\ req[r].prev.calls + req[r].calls.understand <= 1
            /\ req[r].understanding = req[r].prev.intent

\* C4 (amended): when the first of two sequential understandQuery(query) calls
\* did not end in the service-failure fallback, and the second is entered less
\* than 30 minutes after the record the first returned was cached, with no
\* clear and no other call in between, the second issues no service call and
\* returns the same record; the two calls issue at most one service call in
\* total.
C4_UnderstandingCacheIdempotence ==
    \A r \in SeqReq :
        (/\ Repeated(r, "understandQuery")
         /\ ~IsBlankQuery(req[r].query)
         /\ req[r].prev.path # "fallback") =>
            /\ req[r].calls.understand = 0
            /\ req[r].uPath = "hit"
            /\ req[r].prev.calls + req[r].calls.understand <= 1
            /\ req[r].understanding = req[r].prev.intent

\* A second call answered from the cache, later, after a first answered by
\* the service.
C4_Witness ==
    \E r \in SeqReq :
        /\ Repeated(r, "understandQuery")
        /\ req[r].prev.path = "service"
        /\ req[r].prev.calls = 1
        /\ req[r].uPath = "hit"
        /\ now > req[r].recordAt

\* C5: whenever the understanding service fails for a non-blank query without
\* a valid cache entry, understandQuery returns exactly intent search, no
\* category, the non-empty whitespace-separated tokens of the query in order
\* as keywords, and empty/null for the rest, whatever the cache holds.
C5_FallbackDeterminism ==
    \A r \in SeqReq :
        (Done(r, "understandQuery") /\ req[r].uPath = "fallback") =>
            req[r].understanding =
                Intent("search", NullStr, Tokens(req[r].query), NullStr, <<>>, <<>>,
                       NullStr)

\* The fallback for a query with leading and repeated whitespace, while the
\* cache holds an entry for another query.
C5_Witness ==
    \E r \in SeqReq :
        /\ Done(r, "understandQuery") /\ req[r].uPath = "fallback"
        /\ req[r].query = <<" ", "a", " ", " ", "b">>
        /\ req[r].understanding.keywords = << <<"a">>, <<"b">> >>
        /\ DOMAIN caches.understandQuery = { getQueryCacheKey(<<"a">>) }

\* C6 as stated: an understandQuery call that ends in the service-failure
\* fallback leaves all four caches unchanged.
C6_AsStated ==
    \A r \in SeqReq :
        (Done(r, "understandQuery") /\ req[r].uPath = "fallback") =>
            req[r].effects = {}

\* C6 (amended): an understandQuery call that ends in the service-failure
\* fallback writes no cache entry; the only change it can make to the four
\* caches is the eviction of a stale entry under the query's own key by its
\* lookup, so with no other call in progress no entry for the query is left,
\* and a directly following call for the same query is not answered from the
\* cache: it calls the service.
C6_FallbackNotCached ==
    \A r \in SeqReq :
        /\ (Done(r, "understandQuery") /\ req[r].uPath = "fallback") =>
              /\ req[r].effects \subseteq
                    { [class |-> "understandQuery", key |-> UnderstandKey(r),
                       kind |-> "evict"] }
              /\ UnderstandKey(r) \notin DOMAIN caches.understandQuery
        /\ (/\ Done(r, "understandQuery")
            /\ ~IsBlankQuery(req[r].query)
            /\ req[r].prev.has
            /\ req[r].prev.query = req[r].query
            /\ req[r].prev.path = "fallback") =>
              /\ req[r].calls.understand = 1
              /\ req[r].uPath \in {"service", "malformed", "fallback"}

\* A call answered by the service right after a call for the same query that
\* fell back.
C6_Witness ==
    \E r \in SeqReq :
        /\ Done(r, "understandQuery")
        /\ req[r].prev.has
        /\ req[r].prev.query = req[r].query
        /\ req[r].prev.path = "fallback"
        /\ req[r].uPath = "service"
        /\ UnderstandKey(r) \in DOMAIN caches.understandQuery

\* The number of positions of list that hold x.
Count(list, x) == Cardinality({ i \in 1..Len(list) : list[i] = x })

\* a holds exactly the elements of b, each as many times.
IsPermutation(a, b) ==
    /\ Len(a) = Len(b)
    /\ \A i \in 1..Len(b) : Count(a, b[i]) = Count(b, b[i])

ResultsKey(r) == getResultsCacheKey(req[r].query, req[r].results)

\* The call of request r directly follows a call of the same function for
\* the same key (query, first three result identities), entered within the
\* TTL of what that call returned, with no clear in between.
RepeatedKey(r, o) ==
    /\ Done(r, o)
    /\ req[r].prev.has
    /\ req[r].prev.recent
    /\ getResultsCacheKey(req[r].prev.query, req[r].prev.results) = ResultsKey(r)

\* C2 as stated: rankResults returns a permutation of exactly the n input
\* elements on every path (AI-ranked, fallback, failure, cache hit), after
\* any prior sequence of rank calls.
C2_AsStated ==
    \A r \in SeqReq :
        Done(r, "rankResults") => IsPermutation(req[r].ranked, req[r].results)

\* C3 as stated: for the same query, a rank call whose candidate list differs
\* from that of the call before it is never answered from the ranking-cache
\* entry that call wrote.
C3_AsStated ==
    \A r \in SeqReq :
        (/\ Done(r, "rankResults")
         /\ req[r].prev.has
         /\ req[r].prev.query = req[r].query
         /\ req[r].prev.results # req[r].results) =>
            ~(req[r].rPath = "hit" /\ ResultsKey(r) \in req[r].prev.wrote)

\* C7 as stated: once a null overview has been stored for a key, a
\* generateOverview call for that key within the TTL returns null without
\* calling the overview service.
C7_AsStated ==
    \A r \in SeqReq :
        (/\ RepeatedKey(r, "generateOverview")
         /\ req[r].prev.path = "service"
         /\ req[r].prev.overview = NullStr) =>
            /\ req[r].calls.overview = 0
            /\ req[r].overview = NullStr

\* C8 as stated: when the overview service call fails, generateOverview
\* returns null and stores null under the key, and a directly following call
\* for that key within the TTL makes no overview-service call.
C8_AsStated ==
    \A r \in SeqReq :
        /\ (Done(r, "generateOverview") /\ req[r].oPath = "error") =>
              /\ req[r].overview = NullStr
              /\ [class |-> "overview", key |-> ResultsKey(r), kind |-> "write"]
                    \in req[r].effects
        /\ (RepeatedKey(r, "generateOverview") /\ req[r].prev.path = "error") =>
              req[r].calls.overview = 0

HasCategoryClause(q) ==
    \E i \in 1..Len(q.must) : q.must[i].field = "category"

\* The request has run understandQuery and built the structured query.
QueryBuilt(r) ==
    req[r].op = "search" /\ req[r].pc \in {"es_await", "r_await", "o_await", "agg_await", "log_await", "done"}
        /\ req[r].calls.search = 1

\* C1 as stated: for a /search request without a category filter whose
\* understanding has intent search or question and a detected category, the
\* query handed to the index engine has no mandatory category clause: the
\* category resolved in the query builder is null.
C1_AsStated ==
    \A r \in SeqReq :
        (/\ QueryBuilt(r)
         /\ Falsy(req[r].category)
         /\ req[r].understanding.intent \in {"search", "question"}
         /\ Truthy(req[r].understanding.category)) =>
            /\ ~HasCategoryClause(req[r].esQuery)
            /\ Falsy(BuilderTargetCategory(req[r].understanding,
                        TargetCategory(req[r].category, req[r].understanding)))

\* The request got the full response of the /search handler.
Responded(r) == Done(r, "search") /\ req[r].response.shape = "full"

\* C10 as stated: every response of the /search handler for a page other
\* than 1 has didYouMean null, also when the understanding carries a
\* didYouMean or a correctedQuery.
C10_AsStated ==
    \A r \in SeqReq :
        (Responded(r) /\ req[r].page # 1) => req[r].response.didYouMean = NullStr

BrowserKeys(page) ==
    { getCacheKey(q, c, page) : q \in BrowserQueries, c \in BrowserSelectCategories }

\* The step runs the effect of 308-342: the mount, a URL change to another
\* query, a change of the category, the scheduled render.
EffectStep ==
    \/ browser'.mounted # browser.mounted
    \/ browser'.urlChanges # browser.urlChanges /\ browser'.query # browser.query
    \/ browser'.selectedCategory # browser.selectedCategory
    \/ browser.effectDue /\ ~browser'.effectDue

\* The step is an effect run that served the results from the browser's
\* cache, or the arrival of a response of the API at the performSearch call
\* that awaits it.
ServeStep ==
    \/ browser'.served = "cache" /\ EffectStep
    \/ \E r \in BrowserSlots :
          browser.calls[r].stage = "arrived" /\ browser'.calls[r] = NoCall

\* C9: every /search response for a page other than 1 has overview null (an
\* error response carries no overview at all), and the request makes no
\* overview-service call and no overview-cache read or write (generateOverview
\* is not entered), whatever is cached from page 1; the browser's result
\* cache holds no entry with a non-null overview for a page other than 1, and
\* a performSearch call for a page other than 1 that sets the results, from
\* that cache or from the API, sets the overview to null and registers no
\* animation frame.
C9_OverviewPageGating ==
    /\ [](/\ \A r \in BrowserSlots :
              (Done(r, "search") /\ req[r].page # 1) =>
                  /\ Falsy(req[r].response.overview)
                  /\ Responded(r) => req[r].response.overview = NullStr
                  /\ req[r].calls.overview = 0
                  /\ req[r].oPath = "none"
                  /\ \A e \in req[r].effects : e.class # "overview"
          /\ \A p \in BrowserPages \ {1} : \A k \in BrowserKeys(p) :
                k \in DOMAIN browser.cache => browser.cache[k].overview = NullStr)
    /\ [][(ServeStep /\ browser'.servedPage # 1) =>
              /\ browser'.overview = NullStr
              /\ browser'.frame = browser.frame]_vars

\* Page 2 is served from the browser's cache while its page-1 entry and the
\* overview cache of the service hold an overview for the same query, after
\* a /search request for page 2 of that query was answered.
C9_Witness ==
    /\ browser.served = "cache" /\ browser.currentPage = 2
    /\ \E k \in BrowserKeys(1) :
          k \in DOMAIN browser.cache /\ browser.cache[k].overview # NullStr
    /\ \E k \in DOMAIN caches.overview : caches.overview[k].data # NullStr
    /\ \E r \in SeqReq :
          /\ Responded(r) /\ req[r].page = 2 /\ Len(req[r].top) > 0
          /\ req[r].query = browser.query

\* The query of a category-only navigation: the mandatory exact-match clause
\* on the category, and match-all with minimum_should_match 0.
CategoryOnlyQuery(category) ==
    [must |-> << Clause("term", "category", category, 0) >>,
     should |-> << MatchAll >>,
     minimum_should_match |-> 0]

\* C11 as stated: a /search request with an empty query and a non-empty
\* category hands the index engine the mandatory exact-match clause on that
\* category plus match-all with minimum_should_match 0.
C11_AsStated ==
    \A r \in SeqReq :
        (QueryBuilt(r) /\ Falsy(req[r].query) /\ ~Falsy(req[r].category)) =>
            req[r].esQuery = CategoryOnlyQuery(req[r].category)

\* C11 (amended): a /search request with an empty query and a non-blank
\* category hands the index engine the mandatory exact-match clause on that
\* category plus match-all with minimum_should_match 0; for a category of
\* whitespace only the query is match-all without a mandatory clause.
C11_CategoryOnlyNavigation ==
    \A r \in SeqReq :
        (QueryBuilt(r) /\ Falsy(req[r].query) /\ ~Falsy(req[r].category)) =>
            req[r].esQuery =
                IF Len(trim(req[r].category)) > 0
                THEN CategoryOnlyQuery(req[r].category)
                ELSE [CategoryOnlyQuery(req[r].category) EXCEPT !.must = <<>>]

\* A category-only navigation answered in full, its query sent without an
\* understanding-service call.
C11_Witness ==
    \E r \in SeqReq :
        /\ Responded(r)
        /\ req[r].query = <<>> /\ req[r].category = <<"b">>
        /\ req[r].esQuery = CategoryOnlyQuery(<<"b">>)
        /\ req[r].calls.understand = 0
        /\ Len(req[r].response.results) > 0

\* C12: a /search request whose query and category are both empty gets a
\* successful response with no results, total 0, totalPages 0, overview and
\* didYouMean null, and makes no call to the understanding, ranking or
\* overview service nor to the index engine (and touches no cache).
C12_NothingToSearch ==
    \A r \in SeqReq :
        (req[r].op = "search" /\ Falsy(req[r].query) /\ Falsy(req[r].category)) =>
            /\ req[r].pc = "done"
            /\ req[r].response.status = 200
            /\ req[r].response.results = <<>>
            /\ req[r].response.total = 0
            /\ req[r].response.totalPages = 0
            /\ req[r].response.overview = NullStr
            /\ req[r].response.didYouMean = NullStr
            /\ req[r].calls = NoCalls
            /\ req[r].effects = {}

\* The nothing-to-search answer to a request for page 3, while the caches
\* hold entries of earlier requests.
C12_Witness ==
    \E r \in SeqReq :
        /\ Done(r, "search")
        /\ req[r].query = <<>> /\ req[r].category = <<>> /\ req[r].page = 3
        /\ req[r].response.shape = "empty"
        /\ caches.understandQuery # EmptyMap
        /\ caches.overview # EmptyMap

\* C13 as stated: when the candidate search of the index engine fails, the
\* response carries results = [] and total = 0 and does not contain the raw
\* exception message.
C13_AsStated ==
    \A r \in SeqReq :
        (Done(r, "search") /\ req[r].response.shape = "error") =>
            /\ req[r].response.results = <<>>
            /\ req[r].response.total = 0
            /\ Falsy(req[r].response.message)

\* The candidates the page is cut from: the ranked list, or the hits when
\* ranking was skipped.
RankedCandidates(r) ==
    IF req[r].rPath = "none" THEN req[r].results ELSE req[r].ranked

\* The least n with n * size >= total.
PagesFor(total, size) ==
    CHOOSE n \in 0..total : n * size >= total /\ \A m \in 0..(n - 1) : m * size < total

\* C14: if the category-aggregation call fails while the candidate search
\* succeeded, the request succeeds with the results, total and totalPages that
\* do not depend on the aggregation, and categoryCounts is the empty map.
C14_AggregationFailureRecovered ==
    \A r \in SeqReq :
        (Done(r, "search") /\ req[r].aggPath = "error") =>
            /\ req[r].response.status = 200
            /\ req[r].response.shape = "full"
            /\ req[r].response.categoryCounts = EmptyMap
            /\ req[r].response.results = req[r].top
            /\ \A i \in 1..Len(req[r].top) : req[r].top[i] = RankedCandidates(r)[i]
            /\ req[r].response.total = req[r].total
            /\ req[r].response.totalPages = PagesFor(req[r].total, req[r].pageSize)

\* A request with results and an overview whose aggregation failed.
C14_Witness ==
    \E r \in SeqReq :
        /\ Done(r, "search") /\ req[r].aggPath = "error"
        /\ Len(req[r].response.results) = 2
        /\ req[r].response.total > 0
        /\ req[r].response.overview # NullStr

\* C15: for every request with page >= 1 and pageSize >= 1 the response has
\* at most pageSize results, and they are the first pageSize elements of the
\* ranked candidate list (all of it when it is shorter).
C15_PageSizeInvariant ==
    \A r \in SeqReq :
        (Responded(r) /\ req[r].page >= 1 /\ req[r].pageSize >= 1) =>
            LET results == req[r].response.results
                candidates == RankedCandidates(r)
            IN /\ Len(results) <= req[r].pageSize
               /\ Len(results) = Min(Len(candidates), req[r].pageSize)
               /\ \A i \in 1..Len(results) : results[i] = candidates[i]

\* A response cut to pageSize 1 from two candidates the ranking reordered.
C15_Witness ==
    \E r \in SeqReq :
        /\ Responded(r) /\ req[r].pageSize = 1 /\ req[r].page = 3
        /\ req[r].rPath = "ai"
        /\ req[r].ranked = << D("2"), D("1") >>
        /\ req[r].response.results = << D("2") >>

\* C16 as stated: every successful response has totalPages = ceil(total /
\* pageSize), total being the hit count of the candidate search; total 23
\* with pageSize 10 gives 3 pages, and page 3 (offset 20) has at most 3
\* results.
C16_AsStated ==
    \A r \in SeqReq :
        Responded(r) =>
            /\ req[r].response.total = req[r].total
            /\ req[r].response.totalPages =
                  PagesFor(req[r].response.total, req[r].response.pageSize)
            /\ (req[r].response.total = 23 /\ req[r].response.pageSize = 10) =>
                  /\ req[r].response.totalPages = 3
                  /\ req[r].response.page = 3 => Len(req[r].response.results) <= 3

\* The class a direct cache call acts on, its TTL, the key it computes, the
\* value it returned (a read) or was given (a write), and the class's null.
GetOps ==
    {"getCachedUnderstanding", "getCachedSuggestions", "getCachedOverview",
     "getCachedRanking"}
PutOps == {"cacheUnderstanding", "cacheSuggestions", "cacheOverview", "cacheRanking"}

OpClass(o) ==
    CASE o \in {"getCachedUnderstanding", "cacheUnderstanding"} -> "understandQuery"
      [] o \in {"getCachedSuggestions", "cacheSuggestions"} -> "suggestions"
      [] o \in {"getCachedOverview", "cacheOverview"} -> "overview"
      [] o \in {"getCachedRanking", "cacheRanking"} -> "ranking"

TtlOfClass(cl) ==
    CASE cl = "understandQuery" -> 30
      [] cl = "suggestions" -> 15
      [] cl = "overview" -> 60
      [] cl = "ranking" -> 30

OpKey(rq) ==
    IF OpClass(rq.op) \in {"understandQuery", "suggestions"}
    THEN getQueryCacheKey(rq.query)
    ELSE getResultsCacheKey(rq.query, rq.results)

OpValue(rq) ==
    CASE OpClass(rq.op) = "understandQuery" -> rq.understanding
      [] OpClass(rq.op) = "suggestions" -> rq.suggestions
      [] OpClass(rq.op) = "overview" -> rq.overview
      [] OpClass(rq.op) = "ranking" -> rq.ranked

NullOfClass(cl) ==
    CASE cl = "understandQuery" -> NullIntent
      [] cl = "suggestions" -> NullSuggestions
      [] cl = "overview" -> NullStr
      [] cl = "ranking" -> NullList

\* The step is a direct call by r of one of the functions ops: only a call
\* gives r a new record that no clear has marked.
CacheStep(r, ops) ==
    /\ req'[r] # req[r]
    /\ req'[r].op \in ops
    /\ ~req'[r].cleared

\* C17: in each of the four classes a read returns the stored value iff the
\* key has an entry of age now - timestamp less than the class's TTL, and
\* null otherwise; a stale entry under the key is removed by the read, and
\* every other entry of the four maps is left as it was.
C17_CacheReadContract ==
    [][\A r \in SeqReq :
         CacheStep(r, GetOps) =>
            LET cl == OpClass(req'[r].op)
                k == OpKey(req'[r])
                stored == k \in DOMAIN caches[cl]
                valid == stored /\ now - caches[cl][k].timestamp < TtlOfClass(cl)
            IN /\ valid => /\ OpValue(req'[r]) = caches[cl][k].data
                           /\ caches' = caches
               /\ ~valid => OpValue(req'[r]) = NullOfClass(cl)
               /\ (stored /\ ~valid) =>
                     /\ k \notin DOMAIN caches'[cl]
                     /\ \A c2 \in CacheClasses :
                          /\ DOMAIN caches'[c2] =
                                (DOMAIN caches[c2]) \ (IF c2 = cl THEN {k} ELSE {})
                          /\ \A k2 \in DOMAIN caches'[c2] :
                                caches'[c2][k2] = caches[c2][k2]
               /\ ~stored => caches' = caches]_vars

\* A read of the understanding cache that found a stale entry and removed it
\* while the other key of the class and the other classes kept their entries.
C17_Witness ==
    \E r \in SeqReq :
        /\ req[r].op = "getCachedUnderstanding" /\ req[r].pc = "done"
        /\ req[r].recordAt = now
        /\ req[r].understanding = NullIntent
        /\ req[r].effects =
              { [class |-> "understandQuery", key |-> getQueryCacheKey(req[r].query),
                 kind |-> "evict"] }
        /\ DOMAIN caches.understandQuery # {}
        /\ DOMAIN caches.suggestions # {}
        /\ DOMAIN caches.overview # {}
        /\ DOMAIN caches.ranking # {}

\* The caller's read of a key it wrote before, less than one TTL after its
\* most recent write (and, with noClear, no clear of the caches since).
ReadsAfterPut(r, noClear) ==
    /\ req[r].op \in GetOps
    /\ req[r].pc = "done"
    /\ OpKey(req[r]) \in DOMAIN req[r].puts[OpClass(req[r].op)]
    /\ LET put == req[r].puts[OpClass(req[r].op)][OpKey(req[r])]
       IN /\ req[r].recordAt - put.timestamp < TtlOfClass(OpClass(req[r].op))
          /\ noClear => ~put.cleared

LastPutValue(r) == req[r].puts[OpClass(req[r].op)][OpKey(req[r])].data

\* C18 as stated: a read of a key at any time less than one TTL after the
\* most recent write of that key returns the value written.
C18_AsStated ==
    \A r \in SeqReq : ReadsAfterPut(r, FALSE) => OpValue(req[r]) = LastPutValue(r)

C18_ReadsLastPut ==
    \A r \in SeqReq : ReadsAfterPut(r, TRUE) => OpValue(req[r]) = LastPutValue(r)

\* C18 (amended): a write sets the key's entry to the value written with the
\* write time as timestamp, whatever entry was there, and changes no other
\* entry; a read of the key at any later time less than one TTL after the most
\* recent write returns the value written, when the caches were not cleared
\* in between.
C18_CacheWriteContract ==
    [][/\ \A r \in SeqReq :
            CacheStep(r, PutOps) =>
               LET cl == OpClass(req'[r].op)
                   k == OpKey(req'[r])
               IN /\ k \in DOMAIN caches'[cl]
                  /\ caches'[cl][k] = [data |-> OpValue(req'[r]), timestamp |-> now]
                  /\ \A c2 \in CacheClasses :
                       /\ DOMAIN caches'[c2] =
                             (DOMAIN caches[c2]) \cup (IF c2 = cl THEN {k} ELSE {})
                       /\ \A k2 \in DOMAIN caches[c2] :
                             (c2 # cl \/ k2 # k) => caches'[c2][k2] = caches[c2][k2]
       /\ C18_ReadsLastPut']_vars

\* A read of the overview cache that returned the value of the most recent
\* write, made at an earlier time over another value or none.
C18_Witness ==
    \E r \in SeqReq :
        /\ ReadsAfterPut(r, TRUE)
        /\ req[r].op = "getCachedOverview"
        /\ req[r].overview = <<"p">>
        /\ LastPutValue(r) = <<"p">>
        /\ req[r].recordAt > req[r].puts.overview[OpKey(req[r])].timestamp
        /\ req[r].puts.overview[OpKey(req[r])].timestamp > 1

\* What a sweep owes: after holds no entry of age >= its class's TTL, and
\* every entry of before younger than that is in after, value and timestamp
\* unchanged.  The time is that of the caches compared.
SweepContract(before, after, time) ==
    \A cl \in CacheClasses :
        /\ \A k \in DOMAIN after[cl] :
              /\ time - after[cl][k].timestamp < TtlOfClass(cl)
              /\ k \in DOMAIN before[cl]
        /\ \A k \in DOMAIN before[cl] :
              time - before[cl][k].timestamp < TtlOfClass(cl) =>
                 /\ k \in DOMAIN after[cl]
                 /\ after[cl][k] = before[cl][k]

\* The step is a run of the sweep: the caches change while no call is made
\* and no time passes.
SweepStep == caches' # caches /\ req' = req /\ now' = now

SweptHere == SweepContract(caches, cleanExpiredEntries(caches), now)

\* C19: whenever cleanExpiredEntries runs, after any sequence of reads,
\* writes, clears and passing time, it leaves no entry whose age is at least
\* its class's TTL in any of the four classes and keeps every entry that was
\* still valid, value and timestamp unchanged.
C19_SweepContract ==
    [][/\ SweepStep => SweepContract(caches, caches', now)
       /\ SweptHere']_vars

\* A sweep has run: the suggestions entry the caller wrote last is gone with
\* no read and no clear since, and a younger-than-TTL overview entry is kept.
C19_Witness ==
    \E r \in SeqReq :
        /\ req[r].op = "cacheSuggestions" /\ req[r].pc = "done"
        /\ ~req[r].cleared
        /\ OpKey(req[r]) \notin DOMAIN caches.suggestions
        /\ \E k \in DOMAIN caches.overview :
              /\ now - caches.overview[k].timestamp < 60
              /\ caches.overview[k].timestamp < now

\* C20 as stated: for an input list of more than 20 results rankResults
\* issues no ranking-service call and returns the input in its order; when it
\* took the large-list path it wrote the identity result under the list's key,
\* and a repeated call within the TTL is answered from the cache.
C20_AsStated ==
    \A r \in SeqReq :
        (Done(r, "rankResults") /\ Len(req[r].results) > 20) =>
            /\ req[r].calls.rank = 0
            /\ req[r].ranked = req[r].results
            /\ req[r].rPath = "large" =>
                  [class |-> "ranking", key |-> ResultsKey(r), kind |-> "write"]
                     \in req[r].effects
            /\ Repeated(r, "rankResults") => req[r].rPath = "hit"

\* The documents a rank call may return: those of its input, or of the cached
\* list that answered it.
RankDocs == { D(LargeIds[i]) : i \in 1..Len(LargeIds) } \cup { D("4"), D("5") }

\* C21: whatever the ranking service does (the call fails, the response is
\* not JSON, the payload is JSON null or has a wrong-shaped rankedIndices),
\* a rankResults call never ends with an exception: it is awaiting the service
\* or has returned a list, and after a failure or an unusable payload that
\* list is its input.
C21_RankingNeverRaises ==
    \A r \in SeqReq :
        req[r].op = "rankResults" =>
            /\ req[r].pc \in {"r_await", "done"}
            /\ req[r].pc = "done" =>
                  /\ \A i \in 1..Len(req[r].ranked) : req[r].ranked[i] \in RankDocs
                  /\ req[r].rPath \in {"empty", "hit", "large", "ai", "fallback", "error"}
                  /\ req[r].rPath \in {"error", "fallback"} =>
                        req[r].ranked = req[r].results

\* A call that returned its input after the service's payload made the code
\* throw, with nothing cached for its key.
C21_Witness ==
    \E r \in SeqReq :
        /\ Done(r, "rankResults")
        /\ req[r].rPath = "error"
        /\ req[r].calls.rank = 1
        /\ req[r].ranked = ListA
        /\ ResultsKey(r) \notin DOMAIN caches.ranking

\* C22: in a single /search request each external operation is issued at most
\* once (understanding, candidate search, ranking, overview, aggregation),
\* whatever each of them returns or however it fails.
C22_NoRetries ==
    \A r \in SeqReq :
        req[r].op = "search" =>
            /\ req[r].calls.understand <= 1
            /\ req[r].calls.search <= 1
            /\ req[r].calls.rank <= 1
            /\ req[r].calls.overview <= 1
            /\ req[r].calls.agg <= 1

\* A request that issued each of the five operations once, the understanding
\* and the aggregation having failed.
C22_Witness ==
    \E r \in SeqReq :
        /\ Responded(r)
        /\ req[r].calls =
              [NoCalls EXCEPT !.understand = 1, !.search = 1, !.rank = 1,
                              !.overview = 1, !.agg = 1]
        /\ req[r].uPath = "fallback"
        /\ req[r].aggPath = "error"

\* An intent record with every field in place: an intent name, a category
\* and a corrected query that are strings or null, and lists.
WellFormedIntent(u) ==
    /\ DOMAIN u = {"intent", "category", "keywords", "correctedQuery",
                   "expandedTerms", "synonyms", "didYouMean"}
    /\ u.intent \in {"search", "category-only", "category-keyword"}
    /\ u.category # Undefined /\ u.correctedQuery # Undefined
    /\ u.didYouMean # Undefined
    /\ DOMAIN u.keywords = 1..Len(u.keywords)
    /\ DOMAIN u.expandedTerms = 1..Len(u.expandedTerms)
    /\ DOMAIN u.synonyms = 1..Len(u.synonyms)

\* The understanding cache holds whole entries only.
NoTornEntry ==
    \A k \in DOMAIN caches.understandQuery :
        /\ DOMAIN caches.understandQuery[k] = {"data", "timestamp"}
        /\ WellFormedIntent(caches.understandQuery[k].data)
        /\ caches.understandQuery[k].timestamp \in 1..now

\* C23: when requests for one query interleave at their awaits after missing
\* the understanding cache, each of them calls the service once and returns a
\* well-formed intent; one that was answered leaves under the key exactly the
\* record it returns, stamped with the time of the write (the last write
\* wins), one that failed leaves the caches as they were; no step removes an
\* entry younger than the TTL, and no entry is ever torn.
C23_ConcurrentMissesBenign ==
    [][/\ \A r \in Req :
            (req[r].pc = "u_await" /\ req'[r].pc = "done") =>
               /\ WellFormedIntent(req'[r].understanding)
               /\ req'[r].calls.understand = 1
               /\ req'[r].uPath = "fallback" => caches' = caches
               /\ req'[r].uPath # "fallback" =>
                     caches' = [caches EXCEPT !.understandQuery =
                                  MapSet(@, getQueryCacheKey(req[r].query),
                                         [data |-> req'[r].understanding,
                                          timestamp |-> now])]
       /\ \A k \in DOMAIN caches.understandQuery :
             now - caches.understandQuery[k].timestamp < 30 =>
                k \in DOMAIN caches'.understandQuery
       /\ NoTornEntry']_vars

\* Two requests for one key missed the cache together and were answered with
\* different records: the entry is the record one of them returned, and the
\* other returned its own.
C23_Witness ==
    /\ \A r \in {1, 2} :
          /\ Done(r, "understandQuery")
          /\ req[r].uPath = "service"
          /\ req[r].calls.understand = 1
          /\ req[r].recordAt = now
    /\ req[1].query # req[2].query
    /\ req[1].understanding # req[2].understanding
    /\ DOMAIN caches.understandQuery = { getQueryCacheKey(<<"a">>) }
    /\ caches.understandQuery[getQueryCacheKey(<<"a">>)].data = req[2].understanding

\* The step is a direct call of getCachedResults.
ResultGetStep ==
    /\ browser'.direct # browser.direct
    /\ browser'.direct.name = "getCachedResults"

\* The key under which the cache holds the entry of a triple.
ResultKey(t) == t[1] \o <<"|">> \o t[2] \o <<"|">> \o NumStr(t[3])

\* C24: getCachedResults(query, category, page) returns what cacheResults
\* last wrote for the same (lower-cased trimmed query, category, page), with
\* the time of that write, while less than 5 minutes have passed since, and
\* leaves the cache alone; from 5 minutes on, or with nothing written, it
\* returns null, and the cache is left without the entry of that triple and
\* with every other entry.
C24_ResultCacheContract ==
    [][ResultGetStep =>
          LET d == browser'.direct
              t == ResultTriple(d.query, d.category, d.page)
              w == browser.direct.written
          IN IF t \in DOMAIN w /\ now - w[t].timestamp < 5
             THEN /\ d.returned = [w[t].data EXCEPT !.timestamp = w[t].timestamp]
                  /\ browser'.cache = browser.cache
             ELSE /\ d.returned = NullEntry
                  /\ DOMAIN browser'.cache = (DOMAIN browser.cache) \ {ResultKey(t)}
                  /\ \A k \in DOMAIN browser'.cache :
                        browser'.cache[k] = browser.cache[k]]_vars

\* A read found the entry of its triple 5 minutes old and removed it: the
\* read returned null and the cache keeps only the entry of another page.
C24_Witness ==
    /\ browser.direct.name = "getCachedResults"
    /\ browser.direct.returned = NullEntry
    /\ LET t == ResultTriple(browser.direct.query, browser.direct.category,
                             browser.direct.page)
       IN /\ t \in DOMAIN browser.direct.written
          /\ now - browser.direct.written[t].timestamp = 5
          /\ ResultKey(t) \notin DOMAIN browser.cache
    /\ browser.cache # EmptyMap

\* The index list is exactly a reordering of 0..n-1.
IsReordering(indices, n) ==
    /\ Len(indices) = n
    /\ { indices[i] : i \in 1..Len(indices) } = 0..(n - 1)

\* C25 as stated: when the ranking service's answer is not an index list that
\* reorders 0..n-1 (the call failed, the payload is unusable, the list has a
\* wrong length, an out-of-range index or a duplicate), rankResults returns
\* its input in the original order.
C25_AsStated ==
    \A r \in SeqReq :
        (/\ Done(r, "rankResults")
         /\ req[r].rankAnswer.kind # "none"
         /\ ~(/\ req[r].rankAnswer.kind = "ok"
              /\ IsReordering(req[r].rankAnswer.rankedIndices, Len(req[r].results)))) =>
            req[r].ranked = req[r].results

\* C26 as stated: when the understanding service answers with content that is
\* not JSON, understandQuery returns the whitespace-split fallback intent and
\* writes nothing to the understanding cache.
C26_AsStated ==
    \A r \in SeqReq :
        (Done(r, "understandQuery") /\ req[r].uPath = "malformed") =>
            /\ req[r].understanding =
                  Intent("search", NullStr, Tokens(req[r].query), NullStr, <<>>, <<>>,
                         NullStr)
            /\ \A e \in req[r].effects : e.kind # "write"

\* C27 as stated: after a rankResults call returned its input because the
\* ranking-service call failed, a second call with the same query and results
\* within the TTL issues no ranking-service call and returns the input order
\* from the cache.
C27_AsStated ==
    \A r \in SeqReq :
        (/\ Repeated(r, "rankResults")
         /\ req[r].prev.path = "error"
         /\ req[r].pc = "done") =>
            /\ req[r].calls.rank = 0
            /\ req[r].rPath = "hit"
            /\ req[r].ranked = req[r].results

\* The query is empty or holds whitespace only.
BlankText(q) == \A i \in 1..Len(q) : q[i] = " "

\* C28: a /search request with an empty or whitespace-only query and a
\* category makes no understanding, ranking or overview service call and
\* neither evicts nor writes a cache entry; its understanding is intent
\* search, no category, no keywords.
C28_BlankQueriesSkipAi ==
    \A r \in SeqReq :
        (req[r].op = "search" /\ BlankText(req[r].query) /\ req[r].category # <<>>) =>
            /\ req[r].calls.understand = 0
            /\ req[r].calls.rank = 0
            /\ req[r].calls.overview = 0
            /\ req[r].effects = {}
            /\ req[r].uPath = "blank"
            /\ req[r].understanding.intent = "search"
            /\ req[r].understanding.category = NullStr
            /\ req[r].understanding.keywords = <<>>

\* The first page of a category answered for a whitespace-only query, with
\* results, while the understanding cache holds an entry.
C28_Witness ==
    \E r \in SeqReq :
        /\ Responded(r)
        /\ req[r].query = <<" ">> /\ req[r].category = <<"b">>
        /\ req[r].page = 1
        /\ Len(req[r].response.results) > 0
        /\ req[r].calls.search = 1
        /\ caches.understandQuery # EmptyMap

\* C29 as stated: every intent record understandQuery returns (from the
\* service, the cache or the fallback) for a non-blank query, with an intent
\* other than category-only, has a non-empty keywords list.
C29_AsStated ==
    \A r \in SeqReq :
        (/\ Done(r, "understandQuery")
         /\ ~BlankText(req[r].query)
         /\ req[r].understanding.intent # "category-only") =>
            req[r].understanding.keywords # <<>>

\* C30 as stated: whenever a /search request carries a non-empty category
\* filter, the built query has the mandatory category clause on exactly that
\* filter value, whatever intent and category the understanding stage gave.
C30_AsStated ==
    \A r \in SeqReq :
        (QueryBuilt(r) /\ ~Falsy(req[r].category)) =>
            req[r].esQuery.must = << Clause("term", "category", req[r].category, 0) >>

\* C30 (amended): whenever a /search request carries a non-blank category
\* filter, the built query has the mandatory category clause on exactly that
\* filter value, whatever intent and category the understanding stage gave;
\* for a filter of whitespace only the query has no mandatory clause at all.
C30_ExplicitFilterPrecedence ==
    \A r \in SeqReq :
        (QueryBuilt(r) /\ ~Falsy(req[r].category)) =>
            req[r].esQuery.must =
                IF Len(trim(req[r].category)) > 0
                THEN << Clause("term", "category", req[r].category, 0) >>
                ELSE <<>>

\* A query built for filter b after the understanding stage answered intent
\* category-keyword with detected category c.
C30_Witness ==
    \E r \in SeqReq :
        /\ QueryBuilt(r)
        /\ req[r].category = <<"b">>
        /\ req[r].calls.understand = 1
        /\ req[r].understanding.intent = "category-keyword"
        /\ req[r].understanding.category = <<"c">>
        /\ req[r].esQuery.must = << Clause("term", "category", <<"b">>, 0) >>

\* The structured query of request r was built by a direct builder call.
Built(r) == Done(r, "buildElasticsearchQuery")

\* The terms the builder is given: keywords, expanded terms and synonyms.
GivenTerms(u) == u.keywords \o u.expandedTerms \o u.synonyms

HasNonBlankTerm(u) ==
    \E i \in 1..Len(GivenTerms(u)) :
        ~Falsy(GivenTerms(u)[i]) /\ BlankText(GivenTerms(u)[i]) = FALSE

\* C31: for every intent and filter the built query has minimum_should_match
\* 1 iff a per-term should-clause was produced, and otherwise 0 with the
\* match-all clause as its only should-clause; empty and whitespace-only terms
\* produce no clause, so per-term clauses exist iff some term is non-blank.
C31_MinimumShouldMatch ==
    \A r \in SeqReq :
        Built(r) =>
            LET q == req[r].esQuery
                perTerm == \E i \in 1..Len(q.should) : q.should[i] # MatchAll
            IN /\ q.minimum_should_match = (IF perTerm THEN 1 ELSE 0)
               /\ ~perTerm => q.should = << MatchAll >>
               /\ perTerm => \A i \in 1..Len(q.should) : q.should[i] # MatchAll
               /\ perTerm <=> HasNonBlankTerm(req[r].understanding)

\* A query built from a whitespace-only keyword and the keyword a: the nine
\* clauses of a alone, minimum_should_match 1.
C31_Witness ==
    \E r \in SeqReq :
        /\ Built(r)
        /\ req[r].understanding.keywords = << <<" ">>, <<"a">> >>
        /\ req[r].understanding.expandedTerms = <<>>
        /\ Len(req[r].esQuery.should) = 9
        /\ req[r].esQuery.minimum_should_match = 1

\* C32 as stated: a query built from search terms that all have fewer than 3
\* characters holds no prefix clause and no wildcard clause of any kind.
C32_AsStated ==
    \A r \in SeqReq :
        (/\ Built(r)
         /\ \A i \in 1..Len(GivenTerms(req[r].understanding)) :
               Len(GivenTerms(req[r].understanding)[i]) < 3) =>
            \A i \in 1..Len(req[r].esQuery.should) :
                req[r].esQuery.should[i].kind
                    \notin {"match_phrase_prefix", "prefix", "wildcard"}

\* The place of a field in the order title > page_description > content >
\* description.
FieldRank(field) ==
    CASE field = "title" -> 4
      [] field = "page_description" -> 3
      [] field = "content" -> 2
      [] field = "description" -> 1
      [] OTHER -> 0

\* C33 as stated: in each of the two clause tiers the builder emits per term
\* (exact phrase, full match), the boosts are ordered title >
\* page_description > content > description.
C33_AsStated ==
    \A r \in SeqReq :
        Built(r) =>
            LET should == req[r].esQuery.should IN
            \A i, j \in 1..Len(should) :
                (/\ should[i].kind \in {"match_phrase", "match"}
                 /\ should[i].kind = should[j].kind
                 /\ should[i].value = should[j].value
                 /\ FieldRank(should[i].field) > FieldRank(should[j].field)) =>
                    should[i].boost > should[j].boost

\* The lower-cased, trimmed form of a query.
NormalForm(q) == trim(toLowerCase(q))

\* The understandQuery call of request r directly follows one for another
\* spelling of the same query (same lower-cased trimmed form) that did not
\* end in the failure fallback, and was entered within the TTL of what that
\* call returned, with no clear in between.
RespelledRepeat(r) ==
    /\ Done(r, "understandQuery")
    /\ req[r].prev.has /\ req[r].prev.recent
    /\ req[r].prev.query # req[r].query
    /\ NormalForm(req[r].prev.query) = NormalForm(req[r].query)
    /\ ~IsBlankQuery(req[r].query)
    /\ req[r].prev.path # "fallback"

\* A step of an understandQuery call leaves what the cache answers for every
\* query of another lower-cased trimmed form as it was.
OtherFormsUntouched ==
    \A r \in SeqReq :
        (req'[r] # req[r] /\ req'[r].op = "understandQuery" /\ ~req'[r].cleared) =>
            \A q \in UnderstandQueries :
                (~IsBlankQuery(q) /\ NormalForm(q) # NormalForm(req'[r].query)) =>
                    /\ getCachedUnderstanding(caches', q) = getCachedUnderstanding(caches, q)
                    /\ getQueryCacheKey(q) # getQueryCacheKey(req'[r].query)

RespelledIsHit ==
    \A r \in SeqReq :
        RespelledRepeat(r) =>
            /\ req[r].uPath = "hit"
            /\ req[r].calls.understand = 0
            /\ req[r].understanding = req[r].prev.intent

\* C34: two queries differing only in letter case or leading/trailing
\* whitespace have one understanding cache key, so understandQuery on one
\* within the TTL of a successful call on the other is a cache hit without a
\* service call; a call for a query never touches the entry of a query whose
\* lower-cased trimmed form differs.
C34_QueryKeyNormalization == [][RespelledIsHit' /\ OtherFormsUntouched]_vars

\* "A " answered from the cache after "a" was answered by the service.
C34_Witness ==
    \E r \in SeqReq :
        /\ RespelledRepeat(r)
        /\ req[r].prev.query = <<"a">> /\ req[r].query = <<"A", " ">>
        /\ req[r].prev.path = "service"
        /\ req[r].uPath = "hit"
        /\ getCachedUnderstanding(caches, <<" ", "a", " ", " ", "b">>) = NullIntent

\* The step is a clear of the caches: it marks the caller's record.
ClearStep == \E r \in SeqReq : ~req[r].cleared /\ req'[r].cleared

\* C35: clearAllCaches leaves the four cache classes empty, so the next read
\* of any key in any class is a miss; getCacheStats reports for each class
\* the number of entries the class holds and as total the sum of the four,
\* and leaves every non-expired entry, value and timestamp, as it was.
C35_AdministrativeOperations ==
    [][/\ ClearStep => \A cl \in CacheClasses : DOMAIN caches'[cl] = {}
       /\ \A r \in SeqReq :
            (CacheStep(r, GetOps) /\ req[r].cleared) =>
                OpValue(req'[r]) = NullOfClass(OpClass(req'[r].op))
       /\ \A r \in SeqReq :
            CacheStep(r, {"getCacheStats"}) =>
                /\ \A cl \in CacheClasses :
                      /\ req'[r].stats[cl] = Cardinality(DOMAIN caches'[cl])
                      /\ \A k \in DOMAIN caches[cl] :
                            now - caches[cl][k].timestamp < TtlOfClass(cl) =>
                                /\ k \in DOMAIN caches'[cl]
                                /\ caches'[cl][k] = caches[cl][k]
                /\ req'[r].stats.total =
                      req'[r].stats.understandQuery + req'[r].stats.suggestions
                          + req'[r].stats.overview + req'[r].stats.ranking]_vars

\* Statistics were reported over entries in two classes, and the caches were
\* cleared afterwards.
C35_Witness ==
    \E r \in SeqReq :
        /\ Done(r, "getCacheStats")
        /\ req[r].stats.total >= 2
        /\ req[r].stats.overview = 1
        /\ req[r].cleared
        /\ caches = NoCaches

\* The ids of the results in the response of request r.
ResponseIds(r) ==
    { req[r].response.results[i].id : i \in 1..Len(req[r].response.results) }

\* Requests r1 and r2 were answered in full for two different pages of the
\* same query, category and pageSize.
TwoPages(r1, r2) ==
    /\ Responded(r1) /\ Responded(r2)
    /\ req[r1].query = req[r2].query
    /\ req[r1].category = req[r2].category
    /\ req[r1].pageSize = req[r2].pageSize
    /\ req[r1].page # req[r2].page

\* C36 as stated: against an unchanged index, the result lists returned for
\* two different pages of one query, category and pageSize share no id, and
\* the pages 1..totalPages together hold every matching document.
C36_AsStated ==
    \A r1, r2 \in PageReq :
        TwoPages(r1, r2) =>
            /\ ResponseIds(r1) \cap ResponseIds(r2) = {}
            /\ ({req[r1].page, req[r2].page} = 1..req[r1].response.totalPages) =>
                  \A i \in 1..Len(PagedIndex) :
                      PagedIndex[i].id \in ResponseIds(r1) \cup ResponseIds(r2)

\* The /suggest request r has entered its second generateSuggestions call
\* (the call awaits the service, or has returned).
SecondEntered(r) ==
    /\ req[r].op = "suggest"
    /\ req[r].sug.aiPath # "none"
    /\ req[r].pc = "s_await" \/ req[r].sug.ctxPath # "none"

\* The first generateSuggestions call of r returned suggestions of the
\* service or of the cache: it did not fail.
FirstSucceeded(r) == req[r].sug.aiPath \in {"service", "hit"}

\* The second call is answered from the cache with what the first returned,
\* and the request has issued at most one suggestion-service call.
SecondFromCache(r) ==
    /\ req[r].sug.ctxPath = "hit"
    /\ req[r].sug.contextual = req[r].sug.ai
    /\ req[r].calls.suggest <= 1

\* C37 as stated: within one /suggest request, when the first
\* generateSuggestions call succeeds the second is served from the
\* suggestions cache, so that the request issues at most one service call and
\* the index-engine results do not influence the suggestions; when the first
\* call failed the second contacts the service again.
C37_AsStated ==
    \A r \in SeqReq :
        SecondEntered(r) =>
            /\ FirstSucceeded(r) => SecondFromCache(r)
            /\ req[r].sug.aiPath = "error" => req[r].calls.suggest = 2

\* C37 (amended): within one /suggest request, when the first
\* generateSuggestions call succeeds and the second is entered less than 15
\* minutes after the entry the first call wrote or read was stored, with no
\* clear of the caches during the request, the second is served from the
\* suggestions cache, so that the request issues at most one service call and
\* the index-engine results do not influence the suggestions; when the first
\* call failed the second contacts the service again.
C37_SuggestionCalls ==
    \A r \in SeqReq :
        SecondEntered(r) =>
            /\ (/\ FirstSucceeded(r)
                /\ ~req[r].cleared
                /\ req[r].sug.againAt - req[r].recordAt < CACHE_TTL_SUGGESTIONS) =>
                    SecondFromCache(r)
            /\ req[r].sug.aiPath = "error" => req[r].calls.suggest = 2

\* A /suggest request answered after one service call: the index engine
\* returned a result some time after the service answered, and the second
\* call was served from the cache.
C37_Witness ==
    \E r \in SeqReq :
        /\ Done(r, "suggest")
        /\ req[r].sug.aiPath = "service"
        /\ req[r].sug.ctxPath = "hit"
        /\ req[r].sug.againAt > req[r].recordAt
        /\ Len(req[r].sug.esResults) > 0
        /\ req[r].calls.suggest = 1
        /\ Len(req[r].sug.final) > 0

\* C38 as stated: clearCacheForQuery(q) removes every cached entry of query q,
\* for all categories and pages, and leaves the entries of every query whose
\* lower-cased trimmed text differs from q's as they were.
C38_AsStated ==
    browser.direct.name = "clearCacheForQuery" =>
        \A t \in DOMAIN browser.direct.written :
            IF t[1] = trim(toLowerCase(browser.direct.query))
            THEN ResultKey(t) \notin DOMAIN browser.cache
            ELSE ResultKey(t) \in DOMAIN browser.direct.before =>
                    /\ ResultKey(t) \in DOMAIN browser.cache
                    /\ browser.cache[ResultKey(t)] = browser.direct.before[ResultKey(t)]

(***************************************************************************)
(* States of the search page that several performSearch calls in flight    *)
(* and the deferred overview lead to; SpecBrowser reaches each of them.     *)
(***************************************************************************)
\* Two GET /search of the page are in flight, for page 2 and for page 1 of
\* the query the URL changed to.
TwoInFlight ==
    /\ browser.calls[1].stage # "none" /\ browser.calls[2].stage # "none"
    /\ browser.calls[1].page = 2 /\ browser.calls[2].page = 1
    /\ browser.calls[1].query = <<"b">> /\ browser.calls[2].query = <<"b">>
    /\ browser.currentPage = 1

\* The frame of a page-1 response ran after page 2 was served from the cache.
StaleFrame ==
    /\ browser.served = "cache" /\ browser.currentPage = 2
    /\ ~browser.frame.due /\ browser.overview # NullStr

\* Page 1 is current and the page shows the results of page 2.
WrongPageShown ==
    /\ browser.currentPage = 1 /\ browser.served = "api"
    /\ \A r \in BrowserSlots : browser.calls[r] = NoCall
    /\ ~browser.effectDue
    /\ \E k \in DOMAIN browser.cache :
          /\ k = getCacheKey(browser.query, <<>>, 2)
          /\ browser.results = browser.cache[k].results
          /\ getCacheKey(browser.query, <<>>, 1) \in DOMAIN browser.cache
          /\ browser.cache[getCacheKey(browser.query, <<>>, 1)].results # browser.results

\* The category select changed to b on page 2 of query a, and the navigation
\* has not committed: the cached pages of a are cleared, page 2 is current
\* and GET /search for category b and page 2 is in flight.
CategoryChanging ==
    /\ browser.selectedCategory = <<"b">> /\ browser.query = <<"a">>
    /\ browser.prevSearch = [query |-> <<"a">>, category |-> <<"b">>]
    /\ browser.isInitialLoad /\ browser.cache = EmptyMap
    /\ browser.navigating /\ browser.currentPage = 2 /\ ~browser.effectDue
    /\ \E r \in BrowserSlots :
          /\ browser.calls[r].stage = "sent"
          /\ browser.calls[r].category = <<"b">> /\ browser.calls[r].page = 2

\* The response for category b and page 2 arrived before the navigation
\* committed: page 2 is current, its results are shown and cached.
ResponseBeforeCommit ==
    /\ browser.selectedCategory = <<"b">> /\ browser.query = <<"a">>
    /\ browser.navigating /\ browser.currentPage = 2 /\ ~browser.effectDue
    /\ browser.served = "api" /\ browser.servedPage = 2
    /\ \A r \in BrowserSlots : browser.calls[r] = NoCall
    /\ getCacheKey(<<"a">>, <<"b">>, 2) \in DOMAIN browser.cache

\* The navigation of the category change committed: page 1 is current, the
\* render for it is scheduled and GET /search for category b and page 2 is
\* still in flight.
CategoryChanged ==
    /\ browser.selectedCategory = <<"b">> /\ browser.query = <<"a">>
    /\ browser.prevSearch = [query |-> <<"a">>, category |-> <<"b">>]
    /\ browser.isInitialLoad /\ browser.cache = EmptyMap
    /\ ~browser.navigating /\ browser.currentPage = 1 /\ browser.effectDue
    /\ \E r \in BrowserSlots :
          /\ browser.calls[r].stage = "sent"
          /\ browser.calls[r].category = <<"b">> /\ browser.calls[r].page = 2
====
